---- MODULE Spec2Model ----
(***************************************************************************)
(* A model of the mcp-docs documentation search engine: the libsql store   *)
(* (sources, documents, chunks, the chunks_fts mirror and its triggers,    *)
(* ingestion_progress), the ingestion pipeline, the query-embedding LRU    *)
(* cache, reciprocal rank fusion and document materialization.             *)
(*                                                                         *)
(* Each subsystem has its own specification over the module's variables:   *)
(*   SpecIngest  IngestionService.ingestSource running against the store   *)
(*   SpecStore   DocsRepository write operations called in any order       *)
(*   SpecCache   EmbeddingCache get / set under a clock                    *)
(*   SpecRRF     DocsRepository.searchChunksHybrid on two ranked legs      *)
(*   SpecSearch  ToolService.searchSourceDocsFullContent materialization   *)
(***************************************************************************)
EXTENDS Integers, Sequences, FiniteSets, Bags, TLC

(***************************************************************************)
(* Bounds of the model.                                                    *)
(***************************************************************************)
\* paragraphs per document content
MaxParas == 2
\* ingestion runs started
MaxRuns == 3
\* changes of the remote documentation between runs
MaxEdits == 1
\* per-document exceptions injected
MaxFaults == 1
\* process kills injected
MaxCrashes == 1

\* AUTOINCREMENT ids handed out per table when the repository is driven directly
MaxRowIds == 2
\* chunk_index values used when the repository is driven directly
MaxChunkIndex == 1

\* the cache's maxSize option
MaxCacheSize == 3
\* the cache's ttlMs option, in clock ticks
MaxTtl == 1
\* clock ticks while the cache is in use
MaxClock == 2
\* cache.get calls counted in hits and misses
MaxLookups == 2

\* rows one search leg returns
MaxLegLen == 3
\* the limit of a search
MaxLimit == 2

\* documents a search can return
MaxLookupDocs == 2
\* chunk rows the hybrid step hands to materialization
MaxHits == 2
\* length of the opening run of a stored document
MaxRun == 10
\* length of the last word of a stored document
MaxTail == 2
\* the maxTotalChars option
MaxTotalChars == 11
\* a long document: an opening paragraph of LongRun characters, a paragraph break and
\* LongTail more characters; and a budget one character below its length
LongRun == 59
LongTail == 24
LongBudget == 84

\* texts handed to one embedInBatches call
MaxTexts == 4
\* the batchSize option
MaxBatchSize == 2
\* the concurrency option
MaxConcurrency == 2

\* entries of one llms.txt manifest
MaxEntries == 3

(***************************************************************************)
(* Values.                                                                 *)
(***************************************************************************)
\* SQL NULL in a TEXT column
NULL == "NULL"

\* SQL NULL in last_ingested_at (timestamps are positive)
NoTime == 0

\* A document's content is a non-empty sequence of paragraphs
Paragraphs == {"p"}

RECURSIVE SeqsUpTo(_, _)
SeqsUpTo(S, n) ==
  IF n = 0 THEN {<<>>}
  ELSE LET shorter == SeqsUpTo(S, n - 1)
       IN  shorter \cup {Append(s, x) : s \in {t \in shorter : Len(t) = n - 1}, x \in S}

Contents == SeqsUpTo(Paragraphs, MaxParas) \ {<<>>}

\* the urls of the remote documentation, in manifest order
UrlOrder == <<"u1", "u2">>

Urls == {UrlOrder[k] : k \in DOMAIN UrlOrder}

Range(seq) == {seq[n] : n \in DOMAIN seq}

UrlRank(url) == CHOOSE k \in DOMAIN UrlOrder : UrlOrder[k] = url

SourceNames == {"s1", "s2"}

\* error.message of a thrown Error; "" is `new Error()`
ErrorMessages == {"", "boom"}

\* FetchedDocument lists: any selection of the urls in manifest order, any contents
FetchLists ==
  {l \in SeqsUpTo([url : Urls, content : Contents], Len(UrlOrder)) :
     \A a, b \in DOMAIN l : a < b => UrlRank(l[a].url) < UrlRank(l[b].url)}

(***************************************************************************)
(* Pure helpers of the pipeline.                                           *)
(***************************************************************************)
\* crypto.createHash("sha256").update(content).digest("hex"): collision-free
\* on the model's contents, and never equal to the content itself
computeHash(content) == <<"sha256", content>>

\* chunkDocument: [] for empty or white-space-only content; otherwise the
\* splitter's pieces (one per paragraph here), trimmed, empty ones dropped
chunkDocument(content) ==
  IF \A k \in DOMAIN content : content[k] = " " THEN <<>>
  ELSE SelectSeq(content, LAMBDA para : para # " ")

\* embedInBatches: one vector per text, in input order
embedInBatches(texts) == [k \in DOMAIN texts |-> <<"vec", texts[k]>>]

(***************************************************************************)
(* State.                                                                  *)
(***************************************************************************)
VARIABLES
  sources,             \* table sources: rows [id, name, options, description, last_ingested_at]
  documents,           \* table documents: rows [id, source_id, url, content, content_hash]
  chunks,              \* table chunks: rows [id, document_id, chunk_index, content, embedding]
  chunks_fts,          \* FTS5 index: a bag of [rowid, content]
  ingestion_progress,  \* table ingestion_progress
  nextId,              \* AUTOINCREMENT counters, one per table
  now,                 \* CURRENT_TIMESTAMP
  run,                 \* locals and position of the ingestSource call
  prevRun,             \* the locals the previous ingestSource call ended with
  site,                \* the remote documentation: what the fetcher returns now
  counts,              \* runs started, exceptions thrown, process kills, site changes
  call,                \* the DocsRepository call in flight when the repository is driven directly
  cache,               \* EmbeddingCache: the Map in insertion order, hits, misses, options
  clock,               \* Date.now() as the cache sees it
  probe,               \* what the last cache operation returned, and the last set of each key
  fusion,              \* searchChunksHybrid: the two ranked legs, the limit and the fused list
  lookup,              \* searchSourceDocsFullContent: the hits, the documents, the response
  command,             \* ingestCommand: its flags, the sources to ingest, the loop position
  embed,               \* EmbedderService.embedInBatches: batches in flight, results
  fetch                \* LlmsTxtService.fetchDocs: the entries, the responses, the documents

storeVars == <<sources, documents, chunks, chunks_fts, ingestion_progress, nextId, now>>

ingestVars == <<run, prevRun, site, counts>>

cacheVars == <<cache, clock, probe>>

outsideIngest == <<call, cacheVars, fusion, lookup, command, embed, fetch>>

outsideStore == <<ingestVars, cacheVars, fusion, lookup, command, embed, fetch>>

outsideCache == <<storeVars, ingestVars, call, fusion, lookup, command, embed, fetch>>

outsideFusion == <<storeVars, ingestVars, call, cacheVars, lookup, command, embed, fetch>>

outsideLookup == <<storeVars, ingestVars, call, cacheVars, fusion, command, embed, fetch>>

outsideCommand == <<call, cacheVars, fusion, lookup, embed, fetch>>

outsideEmbed == <<storeVars, ingestVars, call, cacheVars, fusion, lookup, command, fetch>>

outsideFetch == <<storeVars, ingestVars, call, cacheVars, fusion, lookup, command, embed>>

vars == <<storeVars, ingestVars, call, cacheVars, fusion, lookup, command, embed, fetch>>

(***************************************************************************)
(* Store: schema triggers.                                                 *)
(***************************************************************************)
FtsRow(c) == [rowid |-> c.id, content |-> c.content]

\* chunks_ai: AFTER INSERT ON chunks
chunks_ai(fts, new) == fts (+) SetToBag({FtsRow(new)})

\* chunks_ad: AFTER DELETE ON chunks, the FTS5 'delete' command
chunks_ad(fts, old) == fts (-) SetToBag({FtsRow(old)})

chunks_au_NoDelete(fts, old, new) == chunks_ai(fts, new)

\* chunks_au: AFTER UPDATE ON chunks
chunks_au(fts, old, new) == chunks_ai(chunks_ad(fts, old), new)

\* the delete trigger fired once per deleted row
RECURSIVE FtsAfterDeletes(_, _)
FtsAfterDeletes(fts, rows) ==
  IF rows = {} THEN fts
  ELSE LET r == CHOOSE x \in rows : TRUE
       IN  FtsAfterDeletes(chunks_ad(fts, r), rows \ {r})

(***************************************************************************)
(* Store: DocsRepository statements.  Each operator is one db.execute.     *)
(***************************************************************************)
SourceByName(name) == {s \in sources : s.name = name}

DocumentsByUrl(sourceId, url) ==
  {d \in documents : d.source_id = sourceId /\ d.url = url}

ChunksOf(docIds) == {c \in chunks : c.document_id \in docIds}

\* upsertSource: INSERT ... ON CONFLICT(name) DO UPDATE SET options, description, ...
\* (last_ingested_at and id are kept on conflict)
upsertSource(name, options, description) ==
  IF SourceByName(name) = {}
  THEN /\ sources' = sources \cup
            {[id |-> nextId.sources, name |-> name, options |-> options,
              description |-> description, last_ingested_at |-> NoTime]}
       /\ nextId' = [nextId EXCEPT !.sources = @ + 1]
  ELSE /\ sources' = {IF s.name = name
                      THEN [s EXCEPT !.options = options, !.description = description]
                      ELSE s : s \in sources}
       /\ nextId' = nextId

SourceIdOf(name, srcs) == (CHOOSE s \in srcs : s.name = name).id

\* updateSourceIngestedAt
updateSourceIngestedAt(sourceId) ==
  sources' = {IF s.id = sourceId THEN [s EXCEPT !.last_ingested_at = now] ELSE s : s \in sources}

\* getDocumentByUrl returns null: no row
NoDocument == <<>>

\* getDocumentByUrl: the stored content_hash, or null
getDocumentByUrl(sourceId, url) ==
  IF DocumentsByUrl(sourceId, url) = {} THEN NoDocument
  ELSE (CHOOSE d \in DocumentsByUrl(sourceId, url) : TRUE).content_hash

upsertDocument_KeepChunks(sourceId, url) == UNCHANGED <<chunks, chunks_fts>>

\* upsertDocument, first statement: DELETE FROM chunks WHERE document_id IN (...)
upsertDocument_DeleteChunks(sourceId, url) ==
  LET gone == ChunksOf({d.id : d \in DocumentsByUrl(sourceId, url)})
  IN  /\ chunks' = chunks \ gone
      /\ chunks_fts' = FtsAfterDeletes(chunks_fts, gone)

\* upsertDocument, second statement: INSERT INTO documents ... ON CONFLICT(source_id, url)
\* DO UPDATE ... RETURNING id
upsertDocument_UpsertRow(sourceId, url, content, contentHash) ==
  IF DocumentsByUrl(sourceId, url) = {}
  THEN /\ documents' = documents \cup
            {[id |-> nextId.documents, source_id |-> sourceId, url |-> url,
              content |-> content, content_hash |-> contentHash]}
       /\ nextId' = [nextId EXCEPT !.documents = @ + 1]
  ELSE /\ documents' = {IF d.source_id = sourceId /\ d.url = url
                        THEN [d EXCEPT !.content = content, !.content_hash = contentHash]
                        ELSE d : d \in documents}
       /\ nextId' = nextId

\* the id RETURNING gives, read in the state after the statement
ReturnedDocumentId(sourceId, url, docs) ==
  (CHOOSE d \in docs : d.source_id = sourceId /\ d.url = url).id

\* insertChunk: INSERT INTO chunks ... ON CONFLICT(document_id, chunk_index) DO UPDATE
\* with the triggers each path fires
insertChunk(documentId, chunkIndex, content, embedding) ==
  LET hit == {c \in chunks : c.document_id = documentId /\ c.chunk_index = chunkIndex}
  IN  IF hit = {}
      THEN LET new == [id |-> nextId.chunks, document_id |-> documentId,
                       chunk_index |-> chunkIndex, content |-> content,
                       embedding |-> embedding]
           IN  /\ chunks' = chunks \cup {new}
               /\ chunks_fts' = chunks_ai(chunks_fts, new)
               /\ nextId' = [nextId EXCEPT !.chunks = @ + 1]
      ELSE LET old == CHOOSE c \in hit : TRUE
               new == [old EXCEPT !.content = content, !.embedding = embedding]
           IN  /\ chunks' = (chunks \ {old}) \cup {new}
               /\ chunks_fts' = chunks_au(chunks_fts, old, new)
               /\ nextId' = nextId

getIncompleteProgress_AnyStatus(sourceId) ==
  LET open == {r \in ingestion_progress : r.source_id = sourceId}
  IN  {r \in open : \A o \in open : o.started_at <= r.started_at}

\* getIncompleteProgress: the most recent in_progress row of the source, or none
getIncompleteProgress(sourceId) ==
  LET open == {r \in ingestion_progress : r.source_id = sourceId /\ r.status = "in_progress"}
  IN  {r \in open : \A o \in open : o.started_at <= r.started_at}

\* createProgress
createProgress(sourceId, totalDocuments) ==
  /\ ingestion_progress' = ingestion_progress \cup
       {[id |-> nextId.progress, source_id |-> sourceId, total_documents |-> totalDocuments,
         processed_documents |-> 0, skipped_documents |-> 0, failed_documents |-> 0,
         status |-> "in_progress", started_at |-> now,
         last_processed_url |-> NULL, error_message |-> NULL]}
  /\ nextId' = [nextId EXCEPT !.progress = @ + 1]

updateProgress_KeepUrl(progressId, processed, skipped, failed, url, errorMessage) ==
  ingestion_progress' =
    {IF r.id = progressId
     THEN [r EXCEPT !.processed_documents = processed, !.skipped_documents = skipped,
                    !.failed_documents = failed,
                    !.error_message = IF errorMessage \in {NULL, ""} THEN @ ELSE errorMessage]
     ELSE r : r \in ingestion_progress}

\* updateProgress: error_message = COALESCE(?, error_message), bound to
\* `data.errorMessage || null` (an absent or empty message binds NULL)
updateProgress(progressId, processed, skipped, failed, url, errorMessage) ==
  ingestion_progress' =
    {IF r.id = progressId
     THEN [r EXCEPT !.processed_documents = processed, !.skipped_documents = skipped,
                    !.failed_documents = failed, !.last_processed_url = url,
                    !.error_message = IF errorMessage \in {NULL, ""} THEN @ ELSE errorMessage]
     ELSE r : r \in ingestion_progress}

\* completeProgress
completeProgress(progressId, status) ==
  ingestion_progress' =
    {IF r.id = progressId THEN [r EXCEPT !.status = status] ELSE r : r \in ingestion_progress}

ProgressRow(progressId) == CHOOSE r \in ingestion_progress : r.id = progressId

\* the options and description a `source add` may give
SourceOptions == {NULL, "{crawlLimit:10}"}

RunActive == run.pc \notin {"idle", "done", "crashed"}

(***************************************************************************)
(* IngestionService.ingestSource, one action per awaited store statement.  *)
(* run.pc is the statement the call executes next.                         *)
(***************************************************************************)
IdleRun ==
  [pc |-> "idle", at |-> "idle", source |-> NULL, resume |-> FALSE, documents |-> <<>>,
   sourceId |-> 0, progressId |-> 0, startIndex |-> 0, i |-> 0,
   processedCount |-> 0, skippedCount |-> 0, failedCount |-> 0,
   existing |-> <<>>, documentId |-> 0, j |-> 0, error |-> NULL, failedAt |-> "none"]

\* the document of the current loop iteration (documents[i], 0-based in the code)
Doc == run.documents[run.i + 1]

InLoop == run.pc = "loop" /\ run.i < Len(run.documents)

\* const chunks = await chunkDocument(doc.content)
DocChunks == chunkDocument(Doc.content)

\* lines 38-98: fetch the documents, derive the description, upsert the source row.
\* The fetch takes time: the clock has moved on when the first statement runs.
ingestSource_Start(name, resume) ==
  /\ ~RunActive
  /\ counts.runs < MaxRuns
  /\ SourceByName(name) # {}
  /\ LET row == CHOOSE s \in sources : s.name = name
         description == IF row.description = NULL THEN "generated" ELSE row.description
     IN  upsertSource(name, NULL, description)
  /\ now' = now + 1
  /\ prevRun' = run
  /\ run' = [IdleRun EXCEPT !.pc = "progress", !.source = name, !.resume = resume,
                            !.documents = site, !.sourceId = SourceIdOf(name, sources')]
  /\ counts' = [counts EXCEPT !.runs = @ + 1]
  /\ UNCHANGED <<documents, chunks, chunks_fts, ingestion_progress, site>>

\* `ingest --source=name [--resume]` on one configured source
IngestStart(name, resume) ==
  /\ ingestSource_Start(name, resume)
  /\ UNCHANGED outsideIngest

\* documents.findIndex((d) => d.url === progress.lastProcessedUrl) + 1, or 0
ResumeIndex(docs, lastProcessedUrl) ==
  LET found == {k \in DOMAIN docs : docs[k].url = lastProcessedUrl}
  IN  IF lastProcessedUrl = NULL \/ found = {} THEN 0
      ELSE CHOOSE k \in found : \A o \in found : k <= o

\* lines 100-148: resume from the open progress row, or create a new one
IngestProgress ==
  /\ run.pc = "progress"
  /\ LET open == IF run.resume THEN getIncompleteProgress(run.sourceId) ELSE {}
     IN  IF open # {}
         THEN LET progress == CHOOSE r \in open : TRUE
                  startIndex == ResumeIndex(run.documents, progress.last_processed_url)
              IN  /\ run' = [run EXCEPT !.pc = "loop", !.progressId = progress.id,
                                        !.startIndex = startIndex, !.i = startIndex,
                                        !.processedCount = progress.processed_documents,
                                        !.skippedCount = progress.skipped_documents,
                                        !.failedCount = progress.failed_documents]
                  /\ UNCHANGED <<ingestion_progress, nextId>>
         ELSE /\ createProgress(run.sourceId, Len(run.documents))
              /\ run' = [run EXCEPT !.pc = "loop", !.progressId = nextId.progress]
  /\ UNCHANGED <<sources, documents, chunks, chunks_fts, now, prevRun, site, counts>>
  /\ UNCHANGED outsideIngest

SameHash_AnyStoredRow(existing, contentHash) == existing # NoDocument

\* existing?.content_hash === contentHash
SameHash(existing, contentHash) == existing = contentHash

\* lines 156-181: hash, look the document up, skip it when unchanged, else chunk and embed
IngestClassify ==
  /\ InLoop
  /\ LET contentHash == computeHash(Doc.content)
         existing == getDocumentByUrl(run.sourceId, Doc.url)
     IN  IF SameHash(existing, contentHash)
         THEN /\ run' = [run EXCEPT !.skippedCount = @ + 1, !.i = @ + 1, !.existing = existing]
              /\ updateProgress(run.progressId, run.processedCount, run.skippedCount + 1,
                                run.failedCount, Doc.url, NULL)
         ELSE /\ run' = [run EXCEPT !.pc = "upsertDelete", !.existing = existing]
              /\ UNCHANGED ingestion_progress
  /\ UNCHANGED <<sources, documents, chunks, chunks_fts, nextId, now, prevRun, site, counts>>
  /\ UNCHANGED outsideIngest

\* upsertDocument, first statement
IngestUpsertDelete ==
  /\ run.pc = "upsertDelete"
  /\ upsertDocument_DeleteChunks(run.sourceId, Doc.url)
  /\ run' = [run EXCEPT !.pc = "upsertRow"]
  /\ UNCHANGED <<sources, documents, ingestion_progress, nextId, now, prevRun, site, counts>>
  /\ UNCHANGED outsideIngest

\* upsertDocument, second statement
IngestUpsertRow ==
  /\ run.pc = "upsertRow"
  /\ upsertDocument_UpsertRow(run.sourceId, Doc.url, Doc.content, computeHash(Doc.content))
  /\ run' = [run EXCEPT !.pc = "insertChunks", !.j = 0,
                        !.documentId = ReturnedDocumentId(run.sourceId, Doc.url, documents')]
  /\ UNCHANGED <<sources, chunks, chunks_fts, ingestion_progress, now, prevRun, site, counts>>
  /\ UNCHANGED outsideIngest

\* insertChunks: one insertChunk per loop iteration
IngestInsertChunk ==
  /\ run.pc = "insertChunks"
  /\ run.j < Len(DocChunks)
  /\ insertChunk(run.documentId, run.j, DocChunks[run.j + 1],
                 embedInBatches(DocChunks)[run.j + 1])
  /\ run' = [run EXCEPT !.j = @ + 1]
  /\ UNCHANGED <<sources, documents, ingestion_progress, now, prevRun, site, counts>>
  /\ UNCHANGED outsideIngest

\* lines 195-208: the document is stored; count it and update the progress row
IngestDocDone ==
  /\ run.pc = "insertChunks"
  /\ run.j = Len(DocChunks)
  /\ updateProgress(run.progressId, run.processedCount + 1, run.skippedCount,
                    run.failedCount, Doc.url, NULL)
  /\ run' = [run EXCEPT !.pc = "loop", !.processedCount = @ + 1, !.i = @ + 1]
  /\ UNCHANGED <<sources, documents, chunks, chunks_fts, nextId, now, prevRun, site, counts>>
  /\ UNCHANGED outsideIngest

\* the statement at run.pc may throw inside the try block
CanThrow ==
  \/ InLoop
  \/ run.pc \in {"upsertDelete", "upsertRow"}
  \/ run.pc = "insertChunks" /\ run.j < Len(DocChunks)

IngestDocFails_AfterDelete(message) ==
  /\ CanThrow
  /\ counts.faults < MaxFaults
  /\ updateProgress(run.progressId, run.processedCount, run.skippedCount,
                    run.failedCount + 1, Doc.url, message)
  /\ run' = [run EXCEPT !.pc = "loop", !.failedCount = @ + 1, !.i = @ + 1, !.error = message,
                        !.failedAt = run.pc]
  /\ counts' = [counts EXCEPT !.faults = @ + 1]
  /\ upsertDocument_DeleteChunks(run.sourceId, Doc.url)
  /\ UNCHANGED <<sources, documents, nextId, now, prevRun, site>>
  /\ UNCHANGED outsideIngest

\* lines 209-223: the catch block.  The statement that threw changed nothing.  At
\* run.pc = "loop" it is one of lines 156-181: the hash, getDocumentByUrl, chunkDocument
\* or embedInBatches (failedAt: where the last failure of the call happened)
IngestDocFails(message) ==
  /\ CanThrow
  /\ counts.faults < MaxFaults
  /\ updateProgress(run.progressId, run.processedCount, run.skippedCount,
                    run.failedCount + 1, Doc.url, message)
  /\ run' = [run EXCEPT !.pc = "loop", !.failedCount = @ + 1, !.i = @ + 1, !.error = message,
                        !.failedAt = run.pc]
  /\ counts' = [counts EXCEPT !.faults = @ + 1]
  /\ UNCHANGED <<sources, documents, chunks, chunks_fts, nextId, now, prevRun, site>>
  /\ UNCHANGED outsideIngest

\* line 226
IngestStamp ==
  /\ run.pc = "loop"
  /\ run.i >= Len(run.documents)
  /\ updateSourceIngestedAt(run.sourceId)
  /\ run' = [run EXCEPT !.pc = "complete"]
  /\ UNCHANGED <<documents, chunks, chunks_fts, ingestion_progress, nextId, now, prevRun, site, counts>>
  /\ UNCHANGED outsideIngest

\* lines 227-238
IngestComplete ==
  /\ run.pc = "complete"
  /\ completeProgress(run.progressId,
                      IF run.failedCount > 0 THEN "completed_with_errors" ELSE "completed")
  /\ run' = [run EXCEPT !.pc = "done"]
  /\ UNCHANGED <<sources, documents, chunks, chunks_fts, nextId, now, prevRun, site, counts>>
  /\ UNCHANGED outsideIngest

\* the process is killed between two statements: the store keeps what was written
Crash ==
  /\ RunActive
  /\ counts.crashes < MaxCrashes
  /\ run' = [run EXCEPT !.pc = "crashed", !.at = run.pc]
  /\ counts' = [counts EXCEPT !.crashes = @ + 1]
  /\ UNCHANGED <<storeVars, prevRun, site>>
  /\ UNCHANGED outsideIngest

\* the remote documentation changes while no ingestion runs
SiteChange(docs) ==
  /\ ~RunActive
  /\ counts.edits < MaxEdits
  /\ docs # site
  /\ site' = docs
  /\ counts' = [counts EXCEPT !.edits = @ + 1]
  /\ UNCHANGED <<storeVars, run, prevRun>>
  /\ UNCHANGED outsideIngest

\* a fresh database in which `source add s1` has run with the given options
StoreInit(options) ==
  /\ sources = {[id |-> 1, name |-> "s1", options |-> options, description |-> NULL,
                 last_ingested_at |-> NoTime]}
  /\ documents = {}
  /\ chunks = {}
  /\ chunks_fts = EmptyBag
  /\ ingestion_progress = {}
  /\ nextId = [sources |-> 2, documents |-> 1, chunks |-> 1, progress |-> 1]
  /\ now = 1

IngestIdle ==
  /\ run = IdleRun
  /\ prevRun = IdleRun
  /\ site \in FetchLists
  /\ counts = [runs |-> 0, faults |-> 0, crashes |-> 0, edits |-> 0]

\* no hybrid search called
NoFusion == [vectorResults |-> <<>>, ftsResults |-> <<>>, limit |-> 0, returned |-> FALSE,
             rows |-> <<>>]

\* no full-content search called
NoResponse == [documents |-> <<>>, totalChars |-> 0, truncated |-> FALSE]

\* (error: the storage operation whose rejection the tool call rejected with; text: the
\* text of the ToolResponse the tool call resolved with; fetched: the ids of the rows
\* getDocumentsByIds returned, in the order the store returned them)
NoLookup == [chunkResults |-> <<>>, contents |-> <<>>, limit |-> 0, maxTotalChars |-> 0,
             returned |-> "none", response |-> NoResponse, error |-> NULL, text |-> <<>>,
             fetched |-> <<>>]

\* no ingest command running
NoCommand == [pc |-> "idle", resume |-> FALSE, dryRun |-> FALSE, sourcesToIngest |-> <<>>,
              k |-> 0, outcomes |-> <<>>, entry |-> <<>>]

\* no embedInBatches call
\* (completed: the batch indexes in the order their provider calls resolved)
NoEmbed == [pc |-> "idle", texts |-> <<>>, batchSize |-> 0, concurrency |-> 0, i |-> 0,
            inFlight |-> {}, results |-> <<>>, providerCalls |-> 0, completed |-> <<>>]

\* no fetchDocs call
\* (attempts: every fetch() made, with the entry it was made for and its outcome)
NoFetch == [pc |-> "idle", entries |-> <<>>, includeOptional |-> FALSE,
            filteredEntries |-> <<>>, k |-> 0, url |-> <<>>, documents |-> <<>>,
            attempts |-> <<>>]

\* no repository call in flight
\* (overwrote: the last completed statement took insertChunk's DO UPDATE path;
\* existed: the source was there when removeSource was called; removed: what the last
\* removeSource call returned)
NoCall == [op |-> "none", name |-> NULL, sourceId |-> 0, url |-> NULL, content |-> <<>>,
           overwrote |-> FALSE, existed |-> FALSE, removed |-> "none"]

InitIngest ==
  /\ \E options \in SourceOptions : StoreInit(options)
  /\ IngestIdle
  /\ call = NoCall
  /\ cache = <<>>
  /\ clock = 0
  /\ probe = <<>>
  /\ fusion = NoFusion
  /\ lookup = NoLookup
  /\ command = NoCommand
  /\ embed = NoEmbed
  /\ fetch = NoFetch

NextIngest ==
  \/ \E name \in SourceNames, resume \in BOOLEAN : IngestStart(name, resume)
  \/ \E docs \in FetchLists : SiteChange(docs)
  \/ IngestProgress
  \/ IngestClassify
  \/ IngestUpsertDelete
  \/ IngestUpsertRow
  \/ IngestInsertChunk
  \/ IngestDocDone
  \/ \E message \in ErrorMessages : IngestDocFails(message)
  \/ IngestStamp
  \/ IngestComplete
  \/ Crash

SpecIngest == InitIngest /\ [][NextIngest]_vars

(***************************************************************************)
(* ingestCommand: the loop over the configured sources, one ingestSource   *)
(* call per source, each inside its own try/catch.                         *)
(***************************************************************************)
\* listSourcesWithOptions: ORDER BY COALESCE(group_name, name), name
SourceOrder == <<"s1", "s2">>

\* sourcesService.getAllSources(), as names
getAllSources == SelectSeq(SourceOrder, LAMBDA name : SourceByName(name) # {})

\* the rows of every table and the AUTOINCREMENT counters
StoreRows == <<sources, documents, chunks, chunks_fts, ingestion_progress, nextId>>

\* the source of the current iteration of `for (const source of sourcesToIngest)`
CommandSource == command.sourcesToIngest[command.k + 1]

\* lines 72-154: parse the flags, list the sources, filter by --source (process.exit(1)
\* when nothing is left to ingest)
CommandStart(resume, dryRun, targetSource) ==
  /\ command.pc \in {"idle", "closed"}
  /\ LET sourcesToIngest ==
           IF targetSource = NULL THEN getAllSources
           ELSE SelectSeq(getAllSources, LAMBDA name : name = targetSource)
     IN  /\ sourcesToIngest # <<>>
         /\ counts.runs + Len(sourcesToIngest) <= MaxRuns
         /\ command' = [NoCommand EXCEPT !.pc = "loop", !.resume = resume, !.dryRun = dryRun,
                                         !.sourcesToIngest = sourcesToIngest]
  /\ UNCHANGED <<storeVars, ingestVars>>
  /\ UNCHANGED outsideCommand

\* line 158: ingestSource is called for the next source (entry: the store as the call
\* finds it); up to the fetch the call only reads (getSourceByName, getDocumentUrls)
CommandCall ==
  /\ command.pc = "loop"
  /\ command.k < Len(command.sourcesToIngest)
  /\ command' = [command EXCEPT !.pc = "fetch", !.entry = StoreRows]
  /\ UNCHANGED <<storeVars, ingestVars>>
  /\ UNCHANGED outsideCommand

CommandFetchFails_Abort ==
  /\ command.pc = "fetch"
  /\ command' = [command EXCEPT
                   !.pc = "closed",
                   !.outcomes = Append(@, [source |-> CommandSource, result |-> "raised",
                                           documentCount |-> 0])]
  /\ counts' = [counts EXCEPT !.runs = @ + 1]
  /\ UNCHANGED <<storeVars, run, prevRun, site>>
  /\ UNCHANGED outsideCommand

\* part_017 lines 64-72 and ingest.ts lines 166-171: fetchDocuments throws, ingestSource
\* rethrows, the command logs the error and goes on with the next source
CommandFetchFails ==
  /\ command.pc = "fetch"
  /\ command' = [command EXCEPT
                   !.pc = "loop", !.k = @ + 1,
                   !.outcomes = Append(@, [source |-> CommandSource, result |-> "raised",
                                           documentCount |-> 0])]
  /\ counts' = [counts EXCEPT !.runs = @ + 1]
  /\ UNCHANGED <<storeVars, run, prevRun, site>>
  /\ UNCHANGED outsideCommand

CommandDryRun_AfterUpsert ==
  /\ command.pc = "fetch"
  /\ command.dryRun
  /\ upsertSource(CommandSource, NULL, "generated")
  /\ command' = [command EXCEPT
                   !.pc = "loop", !.k = @ + 1,
                   !.outcomes = Append(@, [source |-> CommandSource, result |-> "dry",
                                           documentCount |-> Len(site)])]
  /\ counts' = [counts EXCEPT !.runs = @ + 1]
  /\ UNCHANGED <<documents, chunks, chunks_fts, ingestion_progress, now, run, prevRun, site>>
  /\ UNCHANGED outsideCommand

\* part_017 lines 74-77 and 258-301: with dryRun the call returns performDryRun's summary
\* of the fetched documents
CommandDryRun ==
  /\ command.pc = "fetch"
  /\ command.dryRun
  /\ command' = [command EXCEPT
                   !.pc = "loop", !.k = @ + 1,
                   !.outcomes = Append(@, [source |-> CommandSource, result |-> "dry",
                                           documentCount |-> Len(site)])]
  /\ counts' = [counts EXCEPT !.runs = @ + 1]
  /\ UNCHANGED <<storeVars, run, prevRun, site>>
  /\ UNCHANGED outsideCommand

\* part_017 lines 79-98: the fetch succeeded and this is no dry run
CommandIngestSource ==
  /\ command.pc = "fetch"
  /\ ~command.dryRun
  /\ ingestSource_Start(CommandSource, command.resume)
  /\ command' = [command EXCEPT !.pc = "ingest"]
  /\ UNCHANGED outsideCommand

\* ingestSource returns to the command's loop
CommandSourceReturns ==
  /\ command.pc = "ingest"
  /\ run.pc = "done"
  /\ command' = [command EXCEPT
                   !.pc = "loop", !.k = @ + 1,
                   !.outcomes = Append(@, [source |-> CommandSource, result |-> "ingested",
                                           documentCount |-> Len(run.documents)])]
  /\ UNCHANGED <<storeVars, ingestVars>>
  /\ UNCHANGED outsideCommand

\* lines 174-179: every source was tried; the repository is closed
CommandEnd ==
  /\ command.pc = "loop"
  /\ command.k = Len(command.sourcesToIngest)
  /\ command' = [command EXCEPT !.pc = "closed"]
  /\ UNCHANGED <<storeVars, ingestVars>>
  /\ UNCHANGED outsideCommand

\* a fresh database in which `source add` has run for s1 and s2
InitCommand ==
  /\ sources = {[id |-> n, name |-> SourceOrder[n], options |-> NULL, description |-> NULL,
                 last_ingested_at |-> NoTime] : n \in DOMAIN SourceOrder}
  /\ documents = {}
  /\ chunks = {}
  /\ chunks_fts = EmptyBag
  /\ ingestion_progress = {}
  /\ nextId = [sources |-> Len(SourceOrder) + 1, documents |-> 1, chunks |-> 1, progress |-> 1]
  /\ now = 1
  /\ IngestIdle
  /\ call = NoCall
  /\ cache = <<>>
  /\ clock = 0
  /\ probe = <<>>
  /\ fusion = NoFusion
  /\ lookup = NoLookup
  /\ command = NoCommand
  /\ embed = NoEmbed
  /\ fetch = NoFetch

NextCommand ==
  \/ \E resume, dryRun \in BOOLEAN, targetSource \in SourceNames \cup {NULL} :
       CommandStart(resume, dryRun, targetSource)
  \/ CommandCall
  \/ CommandFetchFails
  \/ CommandDryRun
  \/ CommandIngestSource
  \/ CommandSourceReturns
  \/ CommandEnd
  \/ IngestProgress
  \/ IngestClassify
  \/ IngestUpsertDelete
  \/ IngestUpsertRow
  \/ IngestInsertChunk
  \/ IngestDocDone
  \/ \E message \in ErrorMessages : IngestDocFails(message)
  \/ IngestStamp
  \/ IngestComplete

SpecCommand == InitCommand /\ [][NextCommand]_vars

(***************************************************************************)
(* DocsRepository driven directly: any caller, any arguments, one action   *)
(* per db.execute.  call holds the multi-statement call in flight.         *)
(***************************************************************************)
\* the text of a chunk
ChunkTexts == {"p", "q"}

ChunkIndexes == 0 .. MaxChunkIndex

removeSource_KeepChunks(name) == UNCHANGED <<chunks, chunks_fts>>

\* removeSource, first statement: DELETE FROM chunks of the source's documents
removeSource_DeleteChunks(name) ==
  LET ids == {s.id : s \in SourceByName(name)}
      gone == ChunksOf({d.id : d \in {x \in documents : x.source_id \in ids}})
  IN  /\ chunks' = chunks \ gone
      /\ chunks_fts' = FtsAfterDeletes(chunks_fts, gone)

\* removeSource, second statement: DELETE FROM documents of the source
removeSource_DeleteDocuments(name) ==
  documents' = {d \in documents : d.source_id \notin {s.id : s \in SourceByName(name)}}

\* removeSource, third statement: DELETE FROM ingestion_progress of the source
removeSource_DeleteProgress(name) ==
  ingestion_progress' =
    {r \in ingestion_progress : r.source_id \notin {s.id : s \in SourceByName(name)}}

\* removeSource, fourth statement: DELETE FROM sources WHERE name = ?
removeSource_DeleteSource(name) == sources' = sources \ SourceByName(name)

\* removeSource's result: `result.rows.length > 0` of DELETE ... RETURNING id
removeSource_Result(name) == IF SourceByName(name) # {} THEN "true" ELSE "false"

\* createProgress, called by any caller; UNIQUE(source_id, started_at) rejects a second
\* row of the source in the same second
StoreCreateProgress(sourceId) ==
  /\ call.op = "none"
  /\ sourceId \in {s.id : s \in sources}
  /\ nextId.progress <= MaxRowIds
  /\ \A r \in ingestion_progress : r.source_id # sourceId \/ r.started_at # now
  /\ createProgress(sourceId, 0)
  /\ call' = NoCall
  /\ UNCHANGED <<sources, documents, chunks, chunks_fts, now>>
  /\ UNCHANGED outsideStore

\* SourcesService.saveSource / DocsRepository.upsertSource
StoreUpsertSource(name, options, description) ==
  /\ call.op = "none"
  /\ SourceByName(name) # {} \/ nextId.sources <= MaxRowIds
  /\ upsertSource(name, options, description)
  /\ call' = NoCall
  /\ UNCHANGED <<documents, chunks, chunks_fts, ingestion_progress, now>>
  /\ UNCHANGED outsideStore

StoreUpsertDocumentDelete(sourceId, url, content) ==
  /\ call.op = "none"
  /\ sourceId \in {s.id : s \in sources}
  /\ DocumentsByUrl(sourceId, url) # {} \/ nextId.documents <= MaxRowIds
  /\ upsertDocument_DeleteChunks(sourceId, url)
  /\ call' = [NoCall EXCEPT !.op = "upsertDocument", !.sourceId = sourceId, !.url = url,
                            !.content = content]
  /\ UNCHANGED <<sources, documents, ingestion_progress, nextId, now>>
  /\ UNCHANGED outsideStore

StoreUpsertDocumentRow ==
  /\ call.op = "upsertDocument"
  /\ upsertDocument_UpsertRow(call.sourceId, call.url, call.content, computeHash(call.content))
  /\ call' = NoCall
  /\ UNCHANGED <<sources, chunks, chunks_fts, ingestion_progress, now>>
  /\ UNCHANGED outsideStore

StoreInsertChunk(documentId, chunkIndex, content) ==
  /\ call.op = "none"
  /\ documentId \in {d.id : d \in documents}
  /\ LET conflict == \E c \in chunks : c.document_id = documentId /\ c.chunk_index = chunkIndex
     IN  /\ conflict \/ nextId.chunks <= MaxRowIds
         /\ call' = [NoCall EXCEPT !.overwrote = conflict]
  /\ insertChunk(documentId, chunkIndex, content, embedInBatches(<<content>>)[1])
  /\ UNCHANGED <<sources, documents, ingestion_progress, now>>
  /\ UNCHANGED outsideStore

StoreRemoveSourceChunks(name) ==
  /\ call.op = "none"
  /\ removeSource_DeleteChunks(name)
  /\ call' = [NoCall EXCEPT !.op = "removeSource.documents", !.name = name,
                            !.existed = SourceByName(name) # {}]
  /\ UNCHANGED <<sources, documents, ingestion_progress, nextId, now>>
  /\ UNCHANGED outsideStore

StoreRemoveSourceDocuments ==
  /\ call.op = "removeSource.documents"
  /\ removeSource_DeleteDocuments(call.name)
  /\ call' = [call EXCEPT !.op = "removeSource.progress"]
  /\ UNCHANGED <<sources, chunks, chunks_fts, ingestion_progress, nextId, now>>
  /\ UNCHANGED outsideStore

StoreRemoveSourceProgress ==
  /\ call.op = "removeSource.progress"
  /\ removeSource_DeleteProgress(call.name)
  /\ call' = [call EXCEPT !.op = "removeSource.source"]
  /\ UNCHANGED <<sources, documents, chunks, chunks_fts, nextId, now>>
  /\ UNCHANGED outsideStore

StoreRemoveSourceRow ==
  /\ call.op = "removeSource.source"
  /\ removeSource_DeleteSource(call.name)
  /\ call' = [NoCall EXCEPT !.removed = removeSource_Result(call.name)]
  /\ UNCHANGED <<documents, chunks, chunks_fts, ingestion_progress, nextId, now>>
  /\ UNCHANGED outsideStore

\* a statement of a multi-statement call fails: the call ends, nothing is rolled back
StoreCallFails ==
  /\ call.op # "none"
  /\ call' = NoCall
  /\ UNCHANGED storeVars
  /\ UNCHANGED outsideStore

InitStore ==
  /\ StoreInit(NULL)
  /\ IngestIdle
  /\ site = <<>>
  /\ call = NoCall
  /\ cache = <<>>
  /\ clock = 0
  /\ probe = <<>>
  /\ fusion = NoFusion
  /\ lookup = NoLookup
  /\ command = NoCommand
  /\ embed = NoEmbed
  /\ fetch = NoFetch

NextStore ==
  \/ \E name \in SourceNames, options \in SourceOptions :
       StoreUpsertSource(name, options, NULL)
  \/ \E sourceId \in 1 .. MaxRowIds, url \in Urls, content \in Contents :
       StoreUpsertDocumentDelete(sourceId, url, content)
  \/ StoreUpsertDocumentRow
  \/ \E documentId \in 1 .. MaxRowIds, chunkIndex \in ChunkIndexes, content \in ChunkTexts :
       StoreInsertChunk(documentId, chunkIndex, content)
  \/ \E sourceId \in 1 .. MaxRowIds : StoreCreateProgress(sourceId)
  \/ \E name \in SourceNames : StoreRemoveSourceChunks(name)
  \/ StoreRemoveSourceDocuments
  \/ StoreRemoveSourceProgress
  \/ StoreRemoveSourceRow
  \/ StoreCallFails

SpecStore == InitStore /\ [][NextStore]_vars

(***************************************************************************)
(* EmbedderService.embedInBatches: batches of batchSize texts, embedded in  *)
(* groups of `concurrency` batches that run in parallel.                   *)
(***************************************************************************)
EmbedTexts == {"a", "b"}

\* the vector the provider returns for a text
ProviderVector(text) == <<"vec", text>>

\* a slot of `new Array(texts.length)` nothing was written to
EmptySlot == <<>>

\* the number of batches: one per step of `for (i = 0; i < texts.length; i += batchSize)`
BatchCount(texts, batchSize) == (Len(texts) + batchSize - 1) \div batchSize

\* batches[batchIndex]: texts.slice(batchIndex * batchSize, batchIndex * batchSize + batchSize)
Batch(texts, batchSize, batchIndex) ==
  LET from == batchIndex * batchSize
      to == IF from + batchSize < Len(texts) THEN from + batchSize ELSE Len(texts)
  IN  SubSeq(texts, from + 1, to)

PlaceAt_InGroup(i, chunkIndex, batchSize) == chunkIndex * batchSize

\* const batchIndex = i + chunkIndex; const startIdx = batchIndex * batchSize
PlaceAt(i, chunkIndex, batchSize) == (i + chunkIndex) * batchSize

\* lines 34-58: an empty input returns [] at once; else the batches are cut
EmbedCall(texts, batchSize, concurrency) ==
  /\ embed.pc = "idle"
  /\ embed' = IF Len(texts) = 0
              THEN [NoEmbed EXCEPT !.pc = "returned", !.batchSize = batchSize,
                                   !.concurrency = concurrency]
              ELSE [NoEmbed EXCEPT !.pc = "launch", !.texts = texts, !.batchSize = batchSize,
                                   !.concurrency = concurrency,
                                   !.results = [n \in DOMAIN texts |-> EmptySlot]]
  /\ UNCHANGED outsideEmbed

\* lines 61-65: chunk.map starts generateEmbeddings for every batch of the group; each
\* runs up to its provider call
EmbedLaunchGroup ==
  /\ embed.pc = "launch"
  /\ embed.i < BatchCount(embed.texts, embed.batchSize)
  /\ LET group == {b \in embed.i .. embed.i + embed.concurrency - 1 :
                     b < BatchCount(embed.texts, embed.batchSize)}
     IN  embed' = [embed EXCEPT !.pc = "await", !.inFlight = group,
                                !.providerCalls = @ + Cardinality(group)]
  /\ UNCHANGED outsideEmbed

\* lines 65-78: the provider call of one batch in flight resolves, in any order; its
\* vectors are placed from startIdx on
EmbedBatchCompletes(batchIndex) ==
  /\ embed.pc = "await"
  /\ batchIndex \in embed.inFlight
  /\ LET batch == Batch(embed.texts, embed.batchSize, batchIndex)
         startIdx == PlaceAt(embed.i, batchIndex - embed.i, embed.batchSize)
     IN  embed' = [embed EXCEPT
                     !.inFlight = @ \ {batchIndex},
                     !.completed = Append(@, batchIndex),
                     !.results = [n \in DOMAIN @ |->
                                    IF n - 1 >= startIdx /\ n - 1 < startIdx + Len(batch)
                                    THEN ProviderVector(batch[n - startIdx])
                                    ELSE @[n]]]
  /\ UNCHANGED outsideEmbed

\* the provider call of one batch rejects: Promise.all rejects and embedInBatches throws
EmbedBatchFails(batchIndex) ==
  /\ embed.pc = "await"
  /\ batchIndex \in embed.inFlight
  /\ embed' = [embed EXCEPT !.pc = "raised", !.inFlight = @ \ {batchIndex}]
  /\ UNCHANGED outsideEmbed

\* line 81 and the loop step: Promise.all resolved, i += concurrency
EmbedGroupDone ==
  /\ embed.pc = "await"
  /\ embed.inFlight = {}
  /\ embed' = [embed EXCEPT !.pc = "launch", !.i = @ + embed.concurrency]
  /\ UNCHANGED outsideEmbed

\* line 84: return results
EmbedReturn ==
  /\ embed.pc = "launch"
  /\ embed.i >= BatchCount(embed.texts, embed.batchSize)
  /\ embed' = [embed EXCEPT !.pc = "returned"]
  /\ UNCHANGED outsideEmbed

InitEmbed ==
  /\ StoreInit(NULL)
  /\ IngestIdle
  /\ site = <<>>
  /\ call = NoCall
  /\ cache = <<>>
  /\ clock = 0
  /\ probe = <<>>
  /\ fusion = NoFusion
  /\ lookup = NoLookup
  /\ command = NoCommand
  /\ embed = NoEmbed
  /\ fetch = NoFetch

NextEmbed ==
  \/ \E texts \in SeqsUpTo(EmbedTexts, MaxTexts), batchSize \in 1 .. MaxBatchSize,
        concurrency \in 1 .. MaxConcurrency :
       EmbedCall(texts, batchSize, concurrency)
  \/ EmbedLaunchGroup
  \/ \E batchIndex \in 0 .. MaxTexts : EmbedBatchCompletes(batchIndex)
  \/ \E batchIndex \in 0 .. MaxTexts : EmbedBatchFails(batchIndex)
  \/ EmbedGroupDone
  \/ EmbedReturn

SpecEmbed == InitEmbed /\ [][NextEmbed]_vars

(***************************************************************************)
(* LlmsTxtService.fetchDocs: one fetchDocument call per selected manifest   *)
(* entry, each inside its own try/catch.  A URL is the sequence of its     *)
(* parts; the part ".md" is the suffix fetchDocument tests for and adds.   *)
(***************************************************************************)
EntryUrls == {<<"u">>, <<"u", ".md">>}

\* what one fetch(url) does: a 2xx response, another response, or a thrown error
Responses == {"ok", "non2xx", "throws"}

\* the entries parse() returns; an entry's title is its place in the manifest
Manifests ==
  UNION {{[n \in 1 .. len |-> [title |-> n, url |-> shape[n].url,
                               isOptional |-> shape[n].isOptional]] :
            shape \in [1 .. len -> [url : EntryUrls, isOptional : BOOLEAN]]} :
         len \in 0 .. MaxEntries}

\* url.endsWith(".md")
endsWith_md(url) == url # <<>> /\ url[Len(url)] = ".md"

\* `${url}.md`
append_md(url) == Append(url, ".md")

\* the entry of the current iteration of `for (const entry of filteredEntries)`
FetchEntry == fetch.filteredEntries[fetch.k + 1]

CatchEntryError_Rethrow(f) == [f EXCEPT !.pc = "raised"]

\* lines 506-508: the catch block logs the error; the loop goes on with the next entry
CatchEntryError(f) == [f EXCEPT !.pc = "loop", !.k = @ + 1]

\* lines 529-542 and 503: fetchDocument returns the document, fetchDocs pushes it
PushDocument(f, url) ==
  [f EXCEPT !.pc = "loop", !.k = @ + 1,
            !.documents = Append(@, [url |-> url, title |-> f.filteredEntries[f.k + 1].title])]

\* lines 485-499: parse() returned the entries; the optional ones are filtered out
\* unless includeOptional
FetchDocsStart(entries, includeOptional) ==
  /\ fetch.pc = "idle"
  /\ fetch' = [NoFetch EXCEPT
                 !.pc = "loop", !.entries = entries, !.includeOptional = includeOptional,
                 !.filteredEntries = IF includeOptional THEN entries
                                     ELSE SelectSeq(entries, LAMBDA e : ~e.isOptional)]
  /\ UNCHANGED outsideFetch

\* lines 408-411 and 489: llms.txt itself could not be fetched; parse throws and so
\* does fetchDocs
FetchParseFails ==
  /\ fetch.pc = "idle"
  /\ fetch' = [NoFetch EXCEPT !.pc = "parse_failed"]
  /\ UNCHANGED outsideFetch

\* lines 514-527: fetchDocument's first fetch, of entry.url
FetchDocumentPrimary(response) ==
  /\ fetch.pc = "loop"
  /\ fetch.k < Len(fetch.filteredEntries)
  /\ LET url == FetchEntry.url
         tried == [fetch EXCEPT !.attempts = Append(@, [title |-> FetchEntry.title,
                                                        url |-> url, response |-> response])]
     IN  fetch' = CASE response = "throws" -> CatchEntryError(tried)
                    [] response = "ok" -> PushDocument(tried, url)
                    [] response = "non2xx" /\ endsWith_md(url) -> CatchEntryError(tried)
                    [] OTHER -> [tried EXCEPT !.pc = "fallback", !.url = append_md(url)]
  /\ UNCHANGED outsideFetch

\* lines 520-527: the one retry, with ".md" added
FetchDocumentFallback(response) ==
  /\ fetch.pc = "fallback"
  /\ LET tried == [fetch EXCEPT !.attempts = Append(@, [title |-> FetchEntry.title,
                                                        url |-> fetch.url,
                                                        response |-> response])]
     IN  fetch' = IF response = "ok" THEN PushDocument(tried, fetch.url)
                  ELSE CatchEntryError(tried)
  /\ UNCHANGED outsideFetch

\* line 511: return documents
FetchDocsReturn ==
  /\ fetch.pc = "loop"
  /\ fetch.k = Len(fetch.filteredEntries)
  /\ fetch' = [fetch EXCEPT !.pc = "returned"]
  /\ UNCHANGED outsideFetch

InitFetch ==
  /\ StoreInit(NULL)
  /\ IngestIdle
  /\ site = <<>>
  /\ call = NoCall
  /\ cache = <<>>
  /\ clock = 0
  /\ probe = <<>>
  /\ fusion = NoFusion
  /\ lookup = NoLookup
  /\ command = NoCommand
  /\ embed = NoEmbed
  /\ fetch = NoFetch

NextFetch ==
  \/ \E entries \in Manifests, includeOptional \in BOOLEAN :
       FetchDocsStart(entries, includeOptional)
  \/ FetchParseFails
  \/ \E response \in Responses : FetchDocumentPrimary(response)
  \/ \E response \in Responses : FetchDocumentFallback(response)
  \/ FetchDocsReturn

SpecFetch == InitFetch /\ [][NextFetch]_vars

(***************************************************************************)
(* EmbeddingCache.  Strings are sequences of characters.                   *)
(***************************************************************************)
Whitespace == {" ", "\n"}

\* String.prototype.toLowerCase on the model's alphabet
toLowerCase(str) ==
  [k \in DOMAIN str |-> CASE str[k] = "Q" -> "q"
                          [] str[k] = "A" -> "a"
                          [] OTHER -> str[k]]

RECURSIVE trimStart(_)
trimStart(str) ==
  IF str # <<>> /\ Head(str) \in Whitespace THEN trimStart(Tail(str)) ELSE str

RECURSIVE trimEnd(_)
trimEnd(str) ==
  IF str # <<>> /\ str[Len(str)] \in Whitespace
  THEN trimEnd(SubSeq(str, 1, Len(str) - 1))
  ELSE str

\* String.prototype.trim
trim(str) == trimEnd(trimStart(str))

\* normalizeKey: query.toLowerCase().trim()
normalizeKey(query) == trim(toLowerCase(query))

\* the queries callers pass
Queries == {<<"q">>, <<" ", "Q">>, <<"a">>, <<" ">>}

Embeddings == {"v1", "v2"}

\* get's `undefined`
Undefined == "undefined"

KeysOf(entries) == {entries[k].key : k \in DOMAIN entries}

EntryOf(entries, key) == entries[CHOOSE k \in DOMAIN entries : entries[k].key = key]

\* Map.prototype.delete: the other entries keep their order
MapDelete(entries, key) == SelectSeq(entries, LAMBDA e : e.key # key)

\* Map.prototype.set: a new key goes last, an existing key keeps its place
MapSet(entries, key, embedding, timestamp) ==
  LET entry == [key |-> key, embedding |-> embedding, timestamp |-> timestamp]
  IN  IF key \in KeysOf(entries)
      THEN [k \in DOMAIN entries |-> IF entries[k].key = key THEN entry ELSE entries[k]]
      ELSE Append(entries, entry)

MoveToEnd_Refreshed(entries, key, entry) ==
  Append(MapDelete(entries, key), [entry EXCEPT !.timestamp = clock])

\* get's move to the most recently used end: cache.delete(key); cache.set(key, entry)
MoveToEnd(entries, key, entry) == Append(MapDelete(entries, key), entry)

\* Date.now() - entry.timestamp > this.ttlMs
Expired(entry) == clock - entry.timestamp > cache.ttlMs

\* set's `while (this.cache.size >= this.maxSize)` loop: the entries it leaves; it
\* hangs when it cannot end (the oldest key is falsy: "" or no key at all)
RECURSIVE EvictOldest(_)
EvictOldest(entries) ==
  IF Len(entries) < cache.maxSize THEN [hangs |-> FALSE, entries |-> entries]
  ELSE IF entries = <<>> \/ Head(entries).key = <<>> THEN [hangs |-> TRUE, entries |-> entries]
  ELSE EvictOldest(Tail(entries))

\* what the last operation returned (expired: a get that found its entry past the TTL)
NoReturn == [op |-> "none", key |-> <<>>, value |-> Undefined, expired |-> FALSE]

\* no set is being followed
NoWatch == [on |-> FALSE, key |-> <<>>, value |-> Undefined, at |-> 0, others |-> {}]

CacheRunning == cache # <<>> /\ ~cache.hung

\* the observer's record of use: a key that was just set or hit by a get goes last
Touch(used, key) == Append(SelectSeq(used, LAMBDA k : k # key), key)

\* the observer's record of use, without the keys that left the cache
Forget(used, entries) == SelectSeq(used, LAMBDA k : k \in KeysOf(entries))

Lookups == cache.hits + cache.misses

\* EmbeddingCache.get
CacheGet(query) ==
  LET key == normalizeKey(query)
  IN  /\ CacheRunning
      /\ Lookups < MaxLookups
      /\ IF key \notin KeysOf(cache.entries)
         THEN /\ cache' = [cache EXCEPT !.misses = @ + 1]
              /\ probe' = [probe EXCEPT !.ret = [op |-> "get", key |-> key, value |-> Undefined,
                                                 expired |-> FALSE]]
         ELSE LET entry == EntryOf(cache.entries, key)
              IN  IF Expired(entry)
                  THEN /\ cache' = [cache EXCEPT !.entries = MapDelete(@, key),
                                                 !.misses = @ + 1]
                       /\ probe' = [probe EXCEPT
                                      !.ret = [op |-> "get", key |-> key, value |-> Undefined,
                                               expired |-> TRUE],
                                      !.used = Forget(@, MapDelete(cache.entries, key))]
                  ELSE /\ cache' = [cache EXCEPT
                                      !.entries = MoveToEnd(@, key, entry),
                                      !.hits = @ + 1]
                       /\ probe' = [probe EXCEPT
                                      !.ret = [op |-> "get", key |-> key,
                                               value |-> entry.embedding, expired |-> FALSE],
                                      !.used = Touch(@, key)]
      /\ UNCHANGED clock
      /\ UNCHANGED outsideCache

\* EmbeddingCache.set; follow tells the observer to follow this set from now on
CacheSet(query, embedding, follow) ==
  LET key == normalizeKey(query)
      kept == EvictOldest(cache.entries)
  IN  /\ CacheRunning
      /\ IF kept.hangs
         THEN /\ cache' = [cache EXCEPT !.hung = TRUE]
              /\ probe' = [ret |-> NoReturn, watch |-> NoWatch, used |-> probe.used]
         ELSE /\ cache' = [cache EXCEPT !.entries = MapSet(kept.entries, key, embedding, clock)]
              /\ probe' =
                   [ret |-> [op |-> "set", key |-> key, value |-> embedding, expired |-> FALSE],
                    watch |->
                      IF follow
                      THEN [on |-> TRUE, key |-> key, value |-> embedding, at |-> clock,
                            others |-> {}]
                      ELSE IF ~probe.watch.on THEN NoWatch
                      ELSE IF probe.watch.key = key THEN NoWatch
                      ELSE [probe.watch EXCEPT !.others = @ \cup {key}],
                    used |-> Touch(Forget(probe.used, kept.entries), key)]
      /\ UNCHANGED clock
      /\ UNCHANGED outsideCache

\* EmbeddingCache.has
CacheHas(query) ==
  LET key == normalizeKey(query)
  IN  /\ CacheRunning
      /\ key \in KeysOf(cache.entries)
      /\ Expired(EntryOf(cache.entries, key))
      /\ cache' = [cache EXCEPT !.entries = MapDelete(@, key)]
      /\ probe' = [probe EXCEPT !.ret = [op |-> "has", key |-> key, value |-> Undefined,
                                         expired |-> FALSE],
                                !.used = Forget(@, MapDelete(cache.entries, key))]
      /\ UNCHANGED clock
      /\ UNCHANGED outsideCache

\* EmbeddingCache.prune
CachePrune ==
  /\ CacheRunning
  /\ \E k \in DOMAIN cache.entries : Expired(cache.entries[k])
  /\ cache' = [cache EXCEPT !.entries = SelectSeq(@, LAMBDA e : ~Expired(e))]
  /\ probe' = [probe EXCEPT !.ret = [NoReturn EXCEPT !.op = "prune"],
                            !.used = Forget(@, SelectSeq(cache.entries, LAMBDA e : ~Expired(e)))]
  /\ UNCHANGED clock
  /\ UNCHANGED outsideCache

\* EmbeddingCache.clear
CacheClear ==
  /\ CacheRunning
  /\ cache.entries # <<>>
  /\ cache' = [cache EXCEPT !.entries = <<>>, !.hits = 0, !.misses = 0]
  /\ probe' = [ret |-> [NoReturn EXCEPT !.op = "clear"], watch |-> NoWatch, used |-> <<>>]
  /\ UNCHANGED clock
  /\ UNCHANGED outsideCache

\* time passes between two cache operations
CacheTick ==
  /\ CacheRunning
  /\ clock < MaxClock
  /\ clock' = clock + 1
  /\ probe' = [probe EXCEPT !.ret = NoReturn]
  /\ UNCHANGED cache
  /\ UNCHANGED outsideCache

\* new EmbeddingCache({ maxSize, ttlMs })
InitCache ==
  /\ StoreInit(NULL)
  /\ IngestIdle
  /\ site = <<>>
  /\ call = NoCall
  /\ cache \in {[entries |-> <<>>, hits |-> 0, misses |-> 0, maxSize |-> m, ttlMs |-> t,
                 hung |-> FALSE] : m \in 0 .. MaxCacheSize, t \in 1 .. MaxTtl}
  /\ clock = 0
  /\ probe = [ret |-> NoReturn, watch |-> NoWatch, used |-> <<>>]
  /\ fusion = NoFusion
  /\ lookup = NoLookup
  /\ command = NoCommand
  /\ embed = NoEmbed
  /\ fetch = NoFetch

NextCache ==
  \/ \E query \in Queries : CacheGet(query)
  \/ \E query \in Queries, embedding \in Embeddings, follow \in BOOLEAN :
       CacheSet(query, embedding, follow)
  \/ \E query \in Queries : CacheHas(query)
  \/ CachePrune
  \/ CacheClear
  \/ CacheTick

SpecCache == InitCache /\ [][NextCache]_vars

(***************************************************************************)
(* DocsRepository.searchChunksHybrid: reciprocal rank fusion of the rows   *)
(* the vector search and the FTS search returned.                          *)
(***************************************************************************)
\* const k = 60 (the RRF constant)
RrfK == 60

\* the key is built from chunk_content.slice(0, 100)
KeyPrefixLength == 100

\* String.prototype.slice(0, end)
slice(str, end) == SubSeq(str, 1, IF Len(str) < end THEN Len(str) ELSE end)

\* a ChunkSearchResult row; two chunks with the same text in one document give equal rows
SearchRows == [url : Urls, chunk_content : {<<"x">>, <<"y">>}]

\* `${result.url}:${result.chunk_content.slice(0, 100)}`
RowKey(row) == <<row.url, ":", slice(row.chunk_content, KeyPrefixLength)>>

RECURSIVE Gcd(_, _)
Gcd(a, b) == IF b = 0 THEN a ELSE Gcd(b, a % b)

\* the least common multiple of RrfK + 1 .. RrfK + n: scores are exact fractions over it
RECURSIVE ScoreDenominator(_)
ScoreDenominator(n) ==
  IF n = 0 THEN 1
  ELSE LET d == ScoreDenominator(n - 1)
       IN  (d * (RrfK + n)) \div Gcd(d, RrfK + n)

Denominator == ScoreDenominator(MaxLegLen)

\* 1 / (k + rank + 1), as a numerator over Denominator
rrfScore(rank) == Denominator \div (RrfK + rank + 1)

ScoreAt(scores, key) == CHOOSE n \in DOMAIN scores : scores[n].key = key

\* vectorResults.forEach: scores.set(key, { result, score: rrfScore })
RECURSIVE ScoreVectorResults(_, _, _)
ScoreVectorResults(scores, rows, rank) ==
  IF rank >= Len(rows) THEN scores
  ELSE LET row == rows[rank + 1]
           key == RowKey(row)
           entry == [key |-> key, result |-> row, score |-> rrfScore(rank)]
           next == IF \E n \in DOMAIN scores : scores[n].key = key
                   THEN [scores EXCEPT ![ScoreAt(scores, key)] = entry]
                   ELSE Append(scores, entry)
       IN  ScoreVectorResults(next, rows, rank + 1)

\* ftsResults.forEach: existing.score += rrfScore, or scores.set(key, ...)
RECURSIVE ScoreFtsResults(_, _, _)
ScoreFtsResults(scores, rows, rank) ==
  IF rank >= Len(rows) THEN scores
  ELSE LET row == rows[rank + 1]
           key == RowKey(row)
           next == IF \E n \in DOMAIN scores : scores[n].key = key
                   THEN [scores EXCEPT ![ScoreAt(scores, key)].score = @ + rrfScore(rank)]
                   ELSE Append(scores, [key |-> key, result |-> row, score |-> rrfScore(rank)])
       IN  ScoreFtsResults(next, rows, rank + 1)

\* Array.prototype.sort((a, b) => b.score - a.score): stable, descending
RECURSIVE SortByScore(_)
SortByScore(entries) ==
  IF entries = <<>> THEN <<>>
  ELSE LET sorted == SortByScore(SubSeq(entries, 1, Len(entries) - 1))
           last == entries[Len(entries)]
           before == SelectSeq(sorted, LAMBDA e : e.score >= last.score)
           after == SelectSeq(sorted, LAMBDA e : e.score < last.score)
       IN  before \o <<last>> \o after

\* searchChunksHybrid: the rows returned, each with its RRF score (0: the row keeps the
\* distance of the vector search) and the distance 1 - score
searchChunksHybrid(vectorResults, ftsResults, limit) ==
  IF ftsResults = <<>>
  THEN [n \in DOMAIN slice(vectorResults, limit) |->
          [result |-> vectorResults[n], fused |-> FALSE, score |-> 0, distance |-> 0]]
  ELSE LET scores == ScoreFtsResults(ScoreVectorResults(<<>>, vectorResults, 0), ftsResults, 0)
           sorted == slice(SortByScore(scores), limit)
       IN  [n \in DOMAIN sorted |->
              [result |-> sorted[n].result, fused |-> TRUE, score |-> sorted[n].score,
               distance |-> Denominator - sorted[n].score]]

\* Math.max(limit * 3, 15)
fetchLimit(limit) == IF limit * 3 > 15 THEN limit * 3 ELSE 15

\* the call returns
FusionReturn ==
  /\ fusion.limit > 0
  /\ ~fusion.returned
  /\ fusion' = [fusion EXCEPT !.returned = TRUE,
                              !.rows = searchChunksHybrid(fusion.vectorResults,
                                                          fusion.ftsResults, fusion.limit)]
  /\ UNCHANGED outsideFusion

\* a call with the rows the two searches returned, each at most fetchLimit long
InitFusion ==
  /\ StoreInit(NULL)
  /\ IngestIdle
  /\ site = <<>>
  /\ call = NoCall
  /\ cache = <<>>
  /\ clock = 0
  /\ probe = <<>>
  /\ lookup = NoLookup
  /\ command = NoCommand
  /\ embed = NoEmbed
  /\ fetch = NoFetch
  /\ fusion \in {[NoFusion EXCEPT !.vectorResults = v, !.ftsResults = f, !.limit = l] :
                   v \in SeqsUpTo(SearchRows, MaxLegLen), f \in SeqsUpTo(SearchRows, MaxLegLen),
                   l \in 1 .. MaxLimit}
  /\ Len(fusion.vectorResults) <= fetchLimit(fusion.limit)
  /\ Len(fusion.ftsResults) <= fetchLimit(fusion.limit)

NextFusion == FusionReturn

SpecRRF == InitFusion /\ [][NextFusion]_vars

(***************************************************************************)
(* markdown-cleaner.ts on the model's alphabet: a A . space newline.       *)
(***************************************************************************)
SentenceEnds == {".", "!", "?"}

UpperCase == {"A", "Q"}

\* "a" repeated n times
Run(n) == [c \in 1 .. n |-> "a"]

\* what can stand between the opening run of a document and its last word
Separators == {<<" ">>, <<"\n", "\n">>, <<"\n", "\n", "\n">>, <<".", " ", "A">>}

\* the stored contents of the documents a search can return
LookupContents ==
  {Run(n) \o sep \o Run(MaxTail) : n \in 0 .. MaxRun, sep \in Separators}
    \cup {Run(LongRun) \o <<"\n", "\n">> \o Run(LongTail)}

\* the values of the maxTotalChars option
LookupBudgets == 1 .. MaxTotalChars \cup {LongBudget}

\* content.split("\n")
RECURSIVE split(_)
split(str) ==
  IF \A c \in DOMAIN str : str[c] # "\n" THEN <<str>>
  ELSE LET at == CHOOSE c \in DOMAIN str : str[c] = "\n" /\ \A b \in 1 .. c - 1 : str[b] # "\n"
       IN  <<SubSeq(str, 1, at - 1)>> \o split(SubSeq(str, at + 1, Len(str)))

\* result.join("\n")
RECURSIVE join(_)
join(lines) ==
  IF lines = <<>> THEN <<>>
  ELSE IF Len(lines) = 1 THEN lines[1]
  ELSE lines[1] \o <<"\n">> \o join(Tail(lines))

\* cleanMarkdown's loop: no line of the alphabet is a header, a TOC entry or a line to
\* remove, so a line is dropped only as the third or later consecutive empty line
RECURSIVE KeptLines(_, _)
KeptLines(lines, consecutiveEmptyLines) ==
  IF lines = <<>> THEN <<>>
  ELSE IF trim(Head(lines)) = <<>>
       THEN IF consecutiveEmptyLines + 1 > 2
            THEN KeptLines(Tail(lines), consecutiveEmptyLines + 1)
            ELSE <<Head(lines)>> \o KeptLines(Tail(lines), consecutiveEmptyLines + 1)
       ELSE <<Head(lines)>> \o KeptLines(Tail(lines), 0)

\* .replace(/\n{3,}/g, "\n\n"): of every run of newlines the third and later ones go
CollapseNewlines(str) ==
  LET removed == {c \in DOMAIN str :
                    c > 2 /\ str[c] = "\n" /\ str[c - 1] = "\n" /\ str[c - 2] = "\n"}
  IN  IF removed = {} THEN str
      ELSE [n \in 1 .. Len(str) - Cardinality(removed) |->
              str[CHOOSE c \in DOMAIN str \ removed :
                    c - Cardinality({b \in removed : b < c}) = n]]

cleanMarkdown(content) == CollapseNewlines(trim(join(KeptLines(split(content), 0))))

\* truncated.lastIndexOf("\n\n"), 0-based, -1 when absent
LastParagraphBreak(str) ==
  LET at == {c \in 1 .. Len(str) - 1 : str[c] = "\n" /\ str[c + 1] = "\n"}
  IN  IF at = {} THEN -1 ELSE (CHOOSE c \in at : \A b \in at : b <= c) - 1

\* truncated.search(/[.!?]\s+[A-Z][^.!?]*$/), 0-based, -1 when absent
LastSentence(str) ==
  LET at == {c \in DOMAIN str :
               /\ str[c] \in SentenceEnds
               /\ \E u \in c + 2 .. Len(str) :
                    /\ \A w \in c + 1 .. u - 1 : str[w] \in Whitespace
                    /\ str[u] \in UpperCase
                    /\ \A r \in u + 1 .. Len(str) : str[r] \notin SentenceEnds}
  IN  IF at = {} THEN -1 ELSE (CHOOSE c \in at : \A b \in at : c <= b) - 1

\* truncated.lastIndexOf(" "), 0-based, -1 when absent
LastSpace(str) ==
  LET at == {c \in DOMAIN str : str[c] = " "}
  IN  IF at = {} THEN -1 ELSE (CHOOSE c \in at : \A b \in at : b <= c) - 1

\* "\n\n[Content truncated...]"
TruncatedMarker ==
  <<"\n", "\n", "[", "C", "o", "n", "t", "e", "n", "t", " ",
    "t", "r", "u", "n", "c", "a", "t", "e", "d", ".", ".", ".", "]">>

\* truncateContent (the thresholds 0.7, 0.8, 0.9 in tenths)
truncateContent(content, maxLength) ==
  IF Len(content) <= maxLength THEN content
  ELSE LET truncated == slice(content, maxLength)
       IN  IF LastParagraphBreak(truncated) * 10 > maxLength * 7
           THEN slice(truncated, LastParagraphBreak(truncated)) \o TruncatedMarker
           ELSE IF LastSentence(truncated) * 10 > maxLength * 8
           THEN slice(truncated, LastSentence(truncated) + 1) \o TruncatedMarker
           ELSE IF LastSpace(truncated) * 10 > maxLength * 9
           THEN slice(truncated, LastSpace(truncated)) \o <<".", ".", ".">> \o TruncatedMarker
           ELSE truncated \o <<".", ".", ".">> \o TruncatedMarker

(***************************************************************************)
(* ToolService.searchSourceDocsFullContent / searchGroupDocsFullContent,   *)
(* from the chunk rows the hybrid search returned onwards.                 *)
(***************************************************************************)
\* the first `limit` distinct document ids, in order of first appearance
RECURSIVE uniqueDocIds(_, _, _)
uniqueDocIds(chunkResults, limit, seen) ==
  IF chunkResults = <<>> \/ Len(seen) >= limit THEN seen
  ELSE IF \E n \in DOMAIN seen : seen[n] = Head(chunkResults)
       THEN uniqueDocIds(Tail(chunkResults), limit, seen)
       ELSE uniqueDocIds(Tail(chunkResults), limit, Append(seen, Head(chunkResults)))

\* the "Clean and truncate documents" loop over the fetched documents, in docOrder
RECURSIVE Materialize(_, _, _, _)
Materialize(docIds, contents, maxTotalChars, response) ==
  IF docIds = <<>> THEN response
  ELSE LET cleaned == cleanMarkdown(contents[Head(docIds)])
           remainingChars == maxTotalChars - response.totalChars
       IN  IF remainingChars <= 0 THEN [response EXCEPT !.truncated = TRUE]
           ELSE LET content == IF Len(cleaned) > remainingChars
                               THEN truncateContent(cleaned, remainingChars)
                               ELSE cleaned
                    next == [response EXCEPT
                               !.documents = Append(@, [id |-> Head(docIds), content |-> content]),
                               !.totalChars = @ + Len(content)]
                IN  IF next.totalChars >= maxTotalChars
                    THEN [next EXCEPT !.truncated = TRUE]
                    ELSE Materialize(Tail(docIds), contents, maxTotalChars, next)

\* getDocumentsByIds: SELECT ... WHERE id IN (...) has no ORDER BY; the rows of the ids
\* come in any order
getDocumentsByIds(documentIds) ==
  {rows \in [DOMAIN documentIds -> Range(documentIds)] :
     \A n, o \in DOMAIN rows : rows[n] = rows[o] => n = o}

\* docOrder.get(id) ?? 0
docOrder(ids, id) ==
  IF \E n \in DOMAIN ids : ids[n] = id THEN (CHOOSE n \in DOMAIN ids : ids[n] = id) - 1 ELSE 0

sortByDocOrder_StoreOrder(rows, ids) == rows

\* documents.sort((a, b) => docOrder.get(a.id) - docOrder.get(b.id)): stable, ascending
RECURSIVE sortByDocOrder(_, _)
sortByDocOrder(rows, ids) ==
  IF rows = <<>> THEN <<>>
  ELSE LET sorted == sortByDocOrder(SubSeq(rows, 1, Len(rows) - 1), ids)
           last == rows[Len(rows)]
           before == SelectSeq(sorted, LAMBDA r : docOrder(ids, r) <= docOrder(ids, last))
           after == SelectSeq(sorted, LAMBDA r : docOrder(ids, r) > docOrder(ids, last))
       IN  before \o <<last>> \o after

\* the result of the full-content search when the store returned the rows in this order
LookupResponse(rows) ==
  Materialize(sortByDocOrder(rows, uniqueDocIds(lookup.chunkResults, lookup.limit, <<>>)),
              lookup.contents, lookup.maxTotalChars, NoResponse)

\* the pieces of `No results found for "${params.query}" in ${source} documentation.`
NoResultsFound == <<[literal |-> "No results found for ", doc |-> 0],
                    [literal |-> "query", doc |-> 0],
                    [literal |-> " in ", doc |-> 0],
                    [literal |-> "source", doc |-> 0],
                    [literal |-> " documentation.", doc |-> 0]>>

\* formatDocsAsMarkdown: `## title, url, content` per document
formatDocsAsMarkdown(docs) ==
  IF docs = <<>> THEN <<[literal |-> "No results found.", doc |-> 0]>>
  ELSE [n \in DOMAIN docs |-> [literal |-> "## ", doc |-> docs[n].id]]

\* searchSourceDocs / searchGroupDocs: the text of the ToolResponse for a result
ToolText(result) ==
  IF Len(result.documents) = 0 THEN NoResultsFound ELSE formatDocsAsMarkdown(result.documents)

\* the storage operations a search awaits
StorageOperations == {"searchChunks", "searchChunksFts", "getDocumentsByIds"}

\* searchSourceDocs returns: searchSourceDocsFullContent's result, formatted
LookupSourceReturn ==
  /\ lookup.limit > 0
  /\ lookup.returned = "none"
  /\ \E rows \in getDocumentsByIds(uniqueDocIds(lookup.chunkResults, lookup.limit, <<>>)) :
       lookup' = [lookup EXCEPT !.returned = "source", !.fetched = rows,
                                !.response = LookupResponse(rows),
                                !.text = ToolText(LookupResponse(rows))]
  /\ UNCHANGED outsideLookup

\* searchGroupDocs returns: searchGroupDocsFullContent's result (chunkResults: the
\* merged, re-ranked rows), formatted
LookupGroupReturn ==
  /\ lookup.limit > 0
  /\ lookup.returned = "none"
  /\ \E rows \in getDocumentsByIds(uniqueDocIds(lookup.chunkResults, lookup.limit, <<>>)) :
       lookup' = [lookup EXCEPT !.returned = "group", !.fetched = rows,
                                !.response = LookupResponse(rows),
                                !.text = ToolText(LookupResponse(rows))]
  /\ UNCHANGED outsideLookup

\* an awaited storage operation rejects: no try/catch stands between db.execute and the
\* tool handler, so the tool call rejects with the storage error and builds no response
LookupStorageFails(operation) ==
  /\ lookup.limit > 0
  /\ lookup.returned = "none"
  /\ lookup' = [lookup EXCEPT !.returned = "raised", !.error = operation]
  /\ UNCHANGED outsideLookup

LookupDocIds == 1 .. MaxLookupDocs

\* a search whose hybrid step returned chunk rows of stored documents, best first
InitLookup ==
  /\ StoreInit(NULL)
  /\ IngestIdle
  /\ site = <<>>
  /\ call = NoCall
  /\ cache = <<>>
  /\ clock = 0
  /\ probe = <<>>
  /\ fusion = NoFusion
  /\ command = NoCommand
  /\ embed = NoEmbed
  /\ fetch = NoFetch
  /\ \E hits \in SeqsUpTo(LookupDocIds, MaxHits) :
       lookup \in {[NoLookup EXCEPT !.chunkResults = hits, !.contents = c, !.limit = l,
                                    !.maxTotalChars = m] :
                     c \in [Range(hits) -> LookupContents], l \in 1 .. MaxLimit,
                     m \in LookupBudgets}

NextLookup ==
  \/ LookupSourceReturn
  \/ LookupGroupReturn
  \/ \E operation \in StorageOperations : LookupStorageFails(operation)

SpecSearch == InitLookup /\ [][NextLookup]_vars

(***************************************************************************)
(* Properties of the ingestion pipeline (SpecIngest).                      *)
(***************************************************************************)
LoopPcs == {"loop", "upsertDelete", "upsertRow", "insertChunks"}

\* the chunk rows of a document as (chunk_index, content, embedding) triples
ChunkTriples(rows, documentId) ==
  {<<c.chunk_index, c.content, c.embedding>> : c \in {r \in rows : r.document_id = documentId}}

\* the triples insertChunks writes for a content
ExpectedTriples(content) ==
  LET texts == chunkDocument(content)
  IN  {<<k - 1, texts[k], embedInBatches(texts)[k]>> : k \in DOMAIN texts}

\* C2: upsert_document deletes the old chunks and upserts the row as one atomic unit:
\* no step removes all chunks of a document and leaves its row as it was.
C2_UpsertAtomic ==
  [][\A d \in documents \cap documents' :
       {c \in chunks : c.document_id = d.id} # {} =>
         {c \in chunks' : c.document_id = d.id} # {}]_vars

\* C3: once every chunk of a (re-)ingested document is inserted, the document's chunk
\* rows are exactly the indices 0..n-1 of the new content; no earlier row remains.
C3_NoStaleChunks ==
  (run.pc = "insertChunks" /\ run.j = Len(DocChunks)) =>
    /\ ChunkTriples(chunks, run.documentId) = ExpectedTriples(Doc.content)
    /\ Cardinality(ChunksOf({run.documentId})) = Len(DocChunks)

\* a two-chunk document re-ingested with one-chunk content, all chunks inserted
C3_Witness ==
  /\ run.pc = "insertChunks"
  /\ run.j = Len(DocChunks)
  /\ run.existing # NoDocument
  /\ Len(chunkDocument(run.existing[2])) > Len(DocChunks)

\* the documents the interrupted call r had stored completely when it was killed
StoredWhenKilled(r) ==
  IF r.at = "insertChunks" /\ r.j = Len(chunkDocument(r.documents[r.i + 1].content))
  THEN r.i + 1
  ELSE r.i

\* a first ingest was killed and a second ingest with resume over the same list returned
ResumedAfterKill ==
  /\ run.pc = "done"
  /\ run.resume
  /\ prevRun.pc = "crashed"
  /\ prevRun.documents = run.documents
  /\ counts.runs = 2
  /\ counts.faults = 0

\* C4: an ingest killed after document k was stored, then resumed over the same list,
\* starts at document k+1 and ends with processed = n, skipped = 0, failed = 0, completed.
C4_ResumeAfterInterrupt ==
  ResumedAfterKill =>
    /\ run.startIndex = StoredWhenKilled(prevRun)
    /\ ProgressRow(run.progressId).processed_documents = Len(run.documents)
    /\ ProgressRow(run.progressId).skipped_documents = 0
    /\ ProgressRow(run.progressId).failed_documents = 0
    /\ ProgressRow(run.progressId).status = "completed"

\* C20: whatever runs came before (runs in which storing a document's chunks failed
\* part-way, runs killed between the document upsert and the end of chunk insertion),
\* a document that a run classifies as unchanged and skips has its complete set of
\* chunks in the store.
C20_SkippedHasAllChunks ==
  [][(run.pc \in LoopPcs /\ run'.skippedCount # run.skippedCount) =>
       \A d \in documents :
         (d.source_id = run.sourceId /\ d.url = Doc.url) =>
           ChunkTriples(chunks, d.id) = ExpectedTriples(Doc.content)]_vars

\* C22: no step of an ingest changes the stored options of a source that exists.
C22_IngestKeepsOptions ==
  [][\A s \in sources : \A t \in sources' : t.id = s.id => t.options = s.options]_vars

\* C25: an ingest with resume starts past the beginning of the fetched list (skipping
\* the documents before last_processed_url) only when the most recent run of the source
\* was interrupted; not on the basis of a run interrupted earlier and followed by a run
\* that completed.
C25_ResumeOnlyAfterInterrupt ==
  (run.pc # "idle" /\ run.startIndex > 0) => prevRun.pc = "crashed"

\* C26: in every ingestion-progress row, processed + skipped + failed <= total, also in
\* rows continued by a resumed run whose fetched list differs from the interrupted run's.
C26_CountersWithinTotal ==
  \A r \in ingestion_progress :
    r.processed_documents + r.skipped_documents + r.failed_documents <= r.total_documents

\* the document rows of a url and their chunk rows
VersionOf(url, docs, rows) ==
  LET stored == {d \in docs : d.url = url}
  IN  <<stored, {c \in rows : c.document_id \in {d.id : d \in stored}}>>

\* C30: a document whose chunking or embedding fails keeps its previous version in the
\* store: the failing step changes no document, chunk or FTS row, and until then the run
\* has changed only rows of the documents it handled before (the step at a document
\* touches no row of another url).
C30_EmbeddingFailureKeepsDocument ==
  [][(run.pc \in LoopPcs /\ run.i < Len(run.documents)) =>
       /\ \A url \in Urls \ {Doc.url} :
            VersionOf(url, documents', chunks') = VersionOf(url, documents, chunks)
       /\ (run.pc = "loop" /\ run'.failedCount = run.failedCount + 1) =>
            /\ UNCHANGED <<documents, chunks, chunks_fts>>
            /\ VersionOf(Doc.url, documents', chunks') = VersionOf(Doc.url, documents, chunks)
  ]_vars

\* a changed document failed before its upsert; the store still holds its previous
\* content with all the chunks of that content
C30_Witness ==
  /\ run.failedAt = "loop"
  /\ run.pc = "loop"
  /\ run.failedCount = 1
  /\ run.i >= 1
  /\ \E d \in documents :
       /\ d.source_id = run.sourceId
       /\ d.url = run.documents[run.i].url
       /\ d.content # run.documents[run.i].content
       /\ ChunkTriples(chunks, d.id) = ExpectedTriples(d.content)
       /\ ChunkTriples(chunks, d.id) # {}

\* the stored rows of the current document's (source, url) hold exactly its content
StoredIdentical(docs) ==
  \E d \in docs : d.source_id = run.sourceId /\ d.url = Doc.url /\ d.content = Doc.content

\* C5: inside the loop, a document byte-identical to its stored row is skipped (skipped + 1,
\* processed kept, documents and chunks untouched) and never enters the store path; any
\* other document enters the store path, and processed + 1 happens only with the document
\* row and all its chunks and embeddings stored, skipped kept.
C5_HashClassifies ==
  [][run.pc \in LoopPcs =>
       /\ run'.skippedCount # run.skippedCount =>
            /\ StoredIdentical(documents)
            /\ run'.skippedCount = run.skippedCount + 1
            /\ run'.processedCount = run.processedCount
            /\ UNCHANGED <<documents, chunks, chunks_fts>>
       /\ run'.processedCount # run.processedCount =>
            /\ run.existing # computeHash(Doc.content)
            /\ run'.processedCount = run.processedCount + 1
            /\ run'.skippedCount = run.skippedCount
            /\ StoredIdentical(documents')
            /\ ChunkTriples(chunks', run.documentId) = ExpectedTriples(Doc.content)
       /\ (InLoop /\ StoredIdentical(documents)) => run'.pc # "upsertDelete"
       /\ (InLoop /\ ~StoredIdentical(documents)) =>
            \/ run'.pc \in {"upsertDelete", "crashed"}
            \/ run'.failedCount = run.failedCount + 1
  ]_vars

\* one run has skipped an unchanged document and stored a changed one
C5_Witness ==
  /\ run.pc = "done"
  /\ run.skippedCount >= 1
  /\ run.processedCount >= 1
  /\ run.failedCount = 0
  /\ run.startIndex = 0
  /\ counts.runs >= 2

\* the call re-ingests the list the previous call ingested to status completed, and no
\* statement of the call has thrown
UnchangedReingest ==
  /\ run.pc \notin {"idle", "crashed"}
  /\ prevRun.pc = "done"
  /\ prevRun.failedCount = 0
  /\ prevRun.documents = run.documents
  /\ run.error = NULL

\* C9: re-ingesting a source whose documents are all unchanged since the previous completed
\* ingest writes no chunk row, advances last_ingested_at and ends with failed = 0.
C9_ReingestIdempotent ==
  [][UnchangedReingest =>
       /\ UNCHANGED <<chunks, chunks_fts>>
       /\ run'.pc = "complete" =>
            \A s \in sources : s.id = run.sourceId =>
              \E t \in sources' : t.id = s.id /\ t.last_ingested_at > s.last_ingested_at
       /\ run'.pc = "done" =>
            /\ run.failedCount = 0
            /\ \A r \in ingestion_progress' : r.id = run.progressId =>
                 r.failed_documents = 0 /\ r.status = "completed"
  ]_vars

\* C10: an exception inside one document's try block adds exactly one to failed, writes
\* that count, the document's url and the error message to the progress row, leaves
\* processed and skipped alone and moves on to the next document of the list.
C10_FailureRecorded ==
  [][(run.pc \in LoopPcs /\ run'.failedCount # run.failedCount) =>
       LET after == CHOOSE r \in ingestion_progress' : r.id = run.progressId
       IN  /\ run'.failedCount = run.failedCount + 1
           /\ after.failed_documents = run.failedCount + 1
           /\ after.last_processed_url = Doc.url
           /\ after.error_message = run'.error
           /\ after.processed_documents = run.processedCount
           /\ after.skipped_documents = run.skippedCount
           /\ after.status = "in_progress"
           /\ run'.processedCount = run.processedCount
           /\ run'.skippedCount = run.skippedCount
           /\ run'.pc = "loop"
           /\ run'.i = run.i + 1
  ]_vars

\* C10, amended: as C10, with the error message recorded when it is not empty; an empty
\* message leaves error_message as it was.
C10_FailureRecordedNonEmpty ==
  [][(run.pc \in LoopPcs /\ run'.failedCount # run.failedCount) =>
       LET before == CHOOSE r \in ingestion_progress : r.id = run.progressId
           after == CHOOSE r \in ingestion_progress' : r.id = run.progressId
       IN  /\ run'.failedCount = run.failedCount + 1
           /\ after.failed_documents = run.failedCount + 1
           /\ after.last_processed_url = Doc.url
           /\ after.error_message =
                IF run'.error = "" THEN before.error_message ELSE run'.error
           /\ after.processed_documents = run.processedCount
           /\ after.skipped_documents = run.skippedCount
           /\ after.status = "in_progress"
           /\ run'.processedCount = run.processedCount
           /\ run'.skippedCount = run.skippedCount
           /\ run'.pc = "loop"
           /\ run'.i = run.i + 1
  ]_vars

\* the first document failed with a message and the second one is being stored
C10_Witness ==
  /\ run.pc = "insertChunks"
  /\ run.startIndex = 0
  /\ run.i = 1
  /\ run.failedCount = 1
  /\ run.processedCount = 0
  /\ run.skippedCount = 0
  /\ run.error = "boom"
  /\ ProgressRow(run.progressId).error_message = "boom"
  /\ ProgressRow(run.progressId).last_processed_url = run.documents[1].url

TerminalStatuses == {"completed", "completed_with_errors"}

\* C13: a progress row is created as in_progress, its status changes only from
\* in_progress to completed or completed_with_errors, and once it has one of these no
\* step of any later run (with or without resume) changes the row or removes it.
C13_ProgressLifecycle ==
  [][/\ \A new \in ingestion_progress' :
          (\A old \in ingestion_progress : old.id # new.id) =>
            /\ new.status = "in_progress"
            /\ new.processed_documents = 0
            /\ new.skipped_documents = 0
            /\ new.failed_documents = 0
            /\ new.last_processed_url = NULL
     /\ \A old \in ingestion_progress :
          /\ \E new \in ingestion_progress' : new.id = old.id
          /\ old.status \in TerminalStatuses => old \in ingestion_progress'
          /\ \A new \in ingestion_progress' :
               (new.id = old.id /\ new.status # old.status) =>
                 old.status = "in_progress" /\ new.status \in TerminalStatuses
  ]_vars

\* a run with resume has handled documents and completed its row while the row of an
\* earlier run stands completed
C13_Witness ==
  /\ run.pc = "done"
  /\ run.resume
  /\ run.processedCount + run.skippedCount > 0
  /\ ProgressRow(run.progressId).status \in TerminalStatuses
  /\ \E r \in ingestion_progress :
       /\ r.id # run.progressId
       /\ r.source_id = run.sourceId
       /\ r.status \in TerminalStatuses
       /\ r.processed_documents > 0

(***************************************************************************)
(* Properties of the store (SpecStore).                                    *)
(***************************************************************************)
\* C8: after any sequence of insert_chunk (conflict overwrites included), upsert_document
\* and remove_source statements, chunks_fts holds exactly one (rowid, content) row per
\* chunk row, with the chunk's id and content, and no other row.
C8_FtsMirrorsChunks ==
  /\ chunks_fts = SetToBag({FtsRow(c) : c \in chunks})
  /\ \A c, d \in chunks : c.id = d.id => c = d

\* an insert_chunk has just overwritten an existing chunk's text with a different one
C8_Witness ==
  /\ call.overwrote
  /\ \E c \in chunks :
       /\ c.content = "q"
       /\ BagIn(FtsRow(c), chunks_fts)
       /\ ~BagIn([rowid |-> c.id, content |-> "p"], chunks_fts)

\* every chunk has its document, every document and progress row its source
NoDanglingRows ==
  /\ \A c \in chunks : \E d \in documents : d.id = c.document_id
  /\ \A d \in documents : \E x \in sources : x.id = d.source_id
  /\ \A r \in ingestion_progress : \E x \in sources : x.id = r.source_id

\* the step is one of the four statements of removeSource
RemoveSourceStep ==
  \/ call.op = "none" /\ call'.op = "removeSource.documents"
  \/ call.op \in {"removeSource.documents", "removeSource.progress", "removeSource.source"}
       /\ (call'.op # "none" \/ call'.removed # "none")

\* the rows the named source owns
OwnedBy(name) ==
  LET ids == {x.id : x \in SourceByName(name)}
      docs == {d \in documents : d.source_id \in ids}
  IN  [sources |-> SourceByName(name), documents |-> docs,
       chunks |-> ChunksOf({d.id : d \in docs}),
       progress |-> {r \in ingestion_progress : r.source_id \in ids}]

\* C15: remove_source deletes chunks, documents, progress rows, source, in an order that
\* never leaves a chunk without its document or a document or progress row without its
\* source; each statement deletes rows of the named source only; when it has returned
\* no row of that source is left, and it returned true iff the source existed.
C15_RemoveSourceCascades ==
  /\ []NoDanglingRows
  /\ [][RemoveSourceStep =>
          LET name == IF call.op = "none" THEN call'.name ELSE call.name
              owned == OwnedBy(name)
          IN  /\ sources \ owned.sources \subseteq sources' /\ sources' \subseteq sources
              /\ documents \ owned.documents \subseteq documents'
              /\ documents' \subseteq documents
              /\ chunks \ owned.chunks \subseteq chunks' /\ chunks' \subseteq chunks
              /\ ingestion_progress \ owned.progress \subseteq ingestion_progress'
              /\ ingestion_progress' \subseteq ingestion_progress
              /\ call'.removed # "none" =>
                   /\ owned.documents = {}
                   /\ owned.chunks = {}
                   /\ owned.progress = {}
                   /\ \A x \in sources' : x.name # name
                   /\ (call'.removed = "true") = call.existed
    ]_vars

\* a source with a document, a chunk and a progress row was removed; the other source
\* still has its document, chunk and progress row
C15_Witness ==
  /\ call.removed = "true"
  /\ nextId.documents = 3 /\ Cardinality(documents) = 1
  /\ nextId.chunks = 3 /\ Cardinality(chunks) = 1
  /\ nextId.progress = 3 /\ Cardinality(ingestion_progress) = 1
  /\ Cardinality(sources) = 1

(***************************************************************************)
(* Properties of the embedding cache (SpecCache).                          *)
(***************************************************************************)
\* C6: a get(q) that follows set(q, v), with at most maxSize - 1 distinct other keys set
\* in between and less than ttl elapsed since that set, returns v.
C6_SetThenGet ==
  (/\ probe.ret.op = "get"
   /\ probe.watch.on
   /\ probe.watch.key = probe.ret.key
   /\ Cardinality(probe.watch.others) <= cache.maxSize - 1
   /\ clock - probe.watch.at < cache.ttlMs) =>
    probe.ret.value = probe.watch.value

(***************************************************************************)
(* Properties of reciprocal rank fusion (SpecRRF).                         *)
(***************************************************************************)
RECURSIVE SumOver(_, _)
SumOver(ranks, rows) ==
  IF ranks = {} THEN 0
  ELSE LET r == CHOOSE x \in ranks : TRUE
       IN  rrfScore(r - 1) + SumOver(ranks \ {r}, rows)

\* the sum of 1/(k + r + 1) over every occurrence of the key at 0-indexed rank r in a leg
LegScore(rows, key) == SumOver({n \in DOMAIN rows : RowKey(rows[n]) = key}, rows)

CombinedScore(key) == LegScore(fusion.vectorResults, key) + LegScore(fusion.ftsResults, key)

FusedKeys ==
  {RowKey(fusion.vectorResults[n]) : n \in DOMAIN fusion.vectorResults}
    \cup {RowKey(fusion.ftsResults[n]) : n \in DOMAIN fusion.ftsResults}

\* C7: when the lexical leg is not empty, every returned key carries the sum of
\* 1/(60 + r + 1) over all its occurrences in both legs, the keys come in descending
\* combined score, cut to limit, and distance is 1 - score.
C7_ReciprocalRankFusion ==
  (fusion.returned /\ fusion.ftsResults # <<>>) =>
    LET rows == fusion.rows
        keys == {RowKey(rows[n].result) : n \in DOMAIN rows}
    IN  /\ Len(rows) = IF Cardinality(FusedKeys) < fusion.limit
                       THEN Cardinality(FusedKeys) ELSE fusion.limit
        /\ Cardinality(keys) = Len(rows)
        /\ \A n \in DOMAIN rows :
             /\ rows[n].score = CombinedScore(RowKey(rows[n].result))
             /\ rows[n].distance = Denominator - rows[n].score
        /\ \A n, m \in DOMAIN rows : n < m => rows[n].score >= rows[m].score
        /\ \A key \in FusedKeys \ keys :
             \A n \in DOMAIN rows : rows[n].score >= CombinedScore(key)

\* the keys of a fused result, in the order returned
ReturnedKeys(rows) == [n \in DOMAIN rows |-> RowKey(rows[n].result)]

\* C14: for two non-empty legs, passing the lexical rows as the vector leg and the
\* vector rows as the lexical leg returns the keys in the same order.
C14_LegsSymmetric ==
  (fusion.returned /\ fusion.vectorResults # <<>> /\ fusion.ftsResults # <<>>) =>
    ReturnedKeys(fusion.rows) =
      ReturnedKeys(searchChunksHybrid(fusion.ftsResults, fusion.vectorResults, fusion.limit))

\* the 0-indexed ranks at which a key occurs in the vector leg
VectorRanks(key) ==
  {n - 1 : n \in {o \in DOMAIN fusion.vectorResults : RowKey(fusion.vectorResults[o]) = key}}

\* the vector-leg rank of a returned row: the rank of the vector row it was built from,
\* whose reciprocal rank its score carries on top of the lexical contributions
ScoredVectorRanks(row) ==
  {r \in VectorRanks(RowKey(row.result)) :
     row.score = rrfScore(r) + LegScore(fusion.ftsResults, RowKey(row.result))}

\* C28: hybrid search is deterministic: a second run on the same two legs returns the
\* same rows in the same order, and rows with equal combined score come in ascending
\* vector-leg rank, rows absent from the vector leg after them.
C28_DeterministicTieOrder ==
  (fusion.returned /\ fusion.ftsResults # <<>>) =>
    /\ fusion.rows =
         searchChunksHybrid(fusion.vectorResults, fusion.ftsResults, fusion.limit)
    /\ \A m, n \in DOMAIN fusion.rows :
         (m < n /\ fusion.rows[m].score = fusion.rows[n].score) =>
           \/ VectorRanks(RowKey(fusion.rows[n].result)) = {}
           \/ /\ VectorRanks(RowKey(fusion.rows[m].result)) # {}
              /\ \A a \in ScoredVectorRanks(fusion.rows[m]) :
                   \A b \in ScoredVectorRanks(fusion.rows[n]) : a < b

(***************************************************************************)
(* Properties of document materialization (SpecSearch).                    *)
(***************************************************************************)
RECURSIVE TotalLength(_)
TotalLength(docs) ==
  IF docs = <<>> THEN 0 ELSE Len(Head(docs).content) + TotalLength(Tail(docs))

\* C1: search and search_group return at most limit documents, and total_chars, the sum
\* of the lengths of the returned contents, is at most max_total_chars.
C1_WithinLimits ==
  lookup.returned \in {"source", "group"} =>
    /\ Len(lookup.response.documents) <= lookup.limit
    /\ lookup.response.totalChars = TotalLength(lookup.response.documents)
    /\ lookup.response.totalChars <= lookup.maxTotalChars

(***************************************************************************)
(* Properties of the ingest command (SpecCommand).                         *)
(***************************************************************************)
LastOutcome == command.outcomes[Len(command.outcomes)]

\* C11: an ingestSource call that raises the fetcher's error has written nothing (the
\* store is as the call found it: no source upsert, no progress row, no document, no
\* chunk), and the command goes on: when it ends, every source it was to ingest has
\* been tried, and every one whose fetch succeeded has been ingested and stamped.
C11_FetchFailureAbortsOneSource ==
  /\ (command.pc = "loop" /\ command.outcomes # <<>> /\ LastOutcome.result = "raised") =>
       StoreRows = command.entry
  /\ command.pc = "closed" =>
       /\ Len(command.outcomes) = Len(command.sourcesToIngest)
       /\ \A n \in DOMAIN command.outcomes :
            /\ command.outcomes[n].source = command.sourcesToIngest[n]
            /\ (command.outcomes[n].result = "ingested") =>
                 \E s \in sources : /\ s.name = command.outcomes[n].source
                                    /\ s.last_ingested_at # NoTime

\* the fetch of s1 failed, and the command then ingested the documents of s2
C11_Witness ==
  /\ command.pc = "closed"
  /\ Len(command.outcomes) = 2
  /\ command.outcomes[1].result = "raised"
  /\ command.outcomes[2].result = "ingested"
  /\ \E d \in documents : d.source_id = SourceIdOf("s2", sources)
  /\ \A d \in documents : d.source_id # SourceIdOf("s1", sources)
  /\ \A r \in ingestion_progress : r.source_id # SourceIdOf("s1", sources)

\* C18: an ingestSource call with dryRun leaves the store as it found it: no source,
\* document, chunk or progress row is created, updated or deleted, and no
\* last_ingested_at is stamped.
C18_DryRunWritesNothing ==
  (command.dryRun /\ command.pc \in {"loop", "closed"} /\ command.outcomes # <<>>) =>
    /\ LastOutcome.result \in {"dry", "raised"}
    /\ StoreRows = command.entry

\* after an earlier ingest stored documents, a dry run over both sources has ended
C18_Witness ==
  /\ command.dryRun
  /\ command.pc = "closed"
  /\ Len(command.outcomes) = 2
  /\ \A n \in DOMAIN command.outcomes : /\ command.outcomes[n].result = "dry"
                                        /\ command.outcomes[n].documentCount > 0
  /\ documents # {}
  /\ chunks # {}
  /\ \E s \in sources : s.last_ingested_at # NoTime
  /\ \E s \in sources : s.last_ingested_at = NoTime

(***************************************************************************)
(* Properties of the search tools (SpecSearch).                            *)
(***************************************************************************)
\* C12: a tool search in which a storage operation (vector search, lexical search or
\* document fetch) failed returns a text response containing "No results found"; it
\* does not raise the storage error to the caller.
C12_StorageErrorsAreNoResults ==
  lookup.error # NULL =>
    /\ lookup.returned \in {"source", "group"}
    /\ \E n \in DOMAIN lookup.text : lookup.text[n].literal = "No results found for "

\* C23: when set(q, v) has returned, the cache holds at most maxSize entries and q is
\* its most recently used entry (the last one in eviction order), also when q was
\* already present before the call.
C23_SetIsMostRecent ==
  (cache # <<>> /\ probe.ret.op = "set") =>
    /\ Len(cache.entries) <= cache.maxSize
    /\ cache.entries # <<>>
    /\ cache.entries[Len(cache.entries)].key = probe.ret.key

\* C24: set terminates for every key in every reachable state of the cache.
C24_SetTerminates == cache # <<>> => ~cache.hung

\* C29: the key a set evicts is the one whose last set or get hit is oldest (so a get
\* that hits saves its entry from the next eviction).
C29_EvictsLeastRecentlyUsed ==
  [][(cache' # <<>> /\ probe'.ret.op = "set") =>
       LET evicted == KeysOf(cache.entries) \ KeysOf(cache'.entries)
       IN  evicted # {} => evicted = {Head(probe.used)}]_vars

\* a step of get: the only operation that adds one to hits + misses
GetStep == cache' # <<>> /\ cache'.hits + cache'.misses = cache.hits + cache.misses + 1

\* C17: a get on an entry older than the TTL returns no vector, adds one to misses and
\* nothing to hits, and removes the entry; and a get never returns a vector more than
\* the TTL after the set that stored it, however many gets hit the entry in between.
C17_ExpiredIsMiss ==
  [][GetStep =>
       LET key == probe'.ret.key
       IN  /\ (key \in KeysOf(cache.entries)
                 /\ clock - EntryOf(cache.entries, key).timestamp > cache.ttlMs) =>
                /\ probe'.ret.value = Undefined
                /\ cache'.misses = cache.misses + 1
                /\ cache'.hits = cache.hits
                /\ key \notin KeysOf(cache'.entries)
           /\ (probe.watch.on /\ probe.watch.key = key /\ probe'.ret.value # Undefined) =>
                /\ probe'.ret.value = probe.watch.value
                /\ clock - probe.watch.at <= cache.ttlMs]_vars

\* a followed set, a get that hit it within the TTL, then a get past the TTL that missed
\* and removed it
C17_Witness ==
  /\ cache # <<>>
  /\ probe.ret.op = "get"
  /\ probe.ret.expired
  /\ probe.watch.on
  /\ probe.watch.key = probe.ret.key
  /\ probe.ret.key \notin KeysOf(cache.entries)
  /\ cache.hits = 1
  /\ cache.misses = 1
  /\ clock - probe.watch.at > cache.ttlMs

\* C21: in a search response a document whose content was shortened by truncateContent
\* is the last document returned, and truncated is true.
C21_TruncatedDocumentIsLast ==
  lookup.returned \in {"source", "group"} =>
    \A n \in DOMAIN lookup.response.documents :
      LET doc == lookup.response.documents[n]
      IN  doc.content # cleanMarkdown(lookup.contents[doc.id]) =>
            /\ n = Len(lookup.response.documents)
            /\ lookup.response.truncated

\* the index of the first row of a document in the ranked chunk list
FirstAppearance(id) ==
  CHOOSE n \in DOMAIN lookup.chunkResults :
    /\ lookup.chunkResults[n] = id
    /\ \A o \in 1 .. n - 1 : lookup.chunkResults[o] # id

\* the first `limit` distinct document ids of the ranked chunk list, by first appearance
RankedDocIds ==
  LET ids == Range(lookup.chunkResults)
      count == IF Cardinality(ids) < lookup.limit THEN Cardinality(ids) ELSE lookup.limit
  IN  [n \in 1 .. count |->
         CHOOSE id \in ids :
           Cardinality({o \in ids : FirstAppearance(o) < FirstAppearance(id)}) = n - 1]

ReturnedDocIds == [n \in DOMAIN lookup.response.documents |-> lookup.response.documents[n].id]

\* C27 as stated: the returned documents are the first `limit` distinct document ids of
\* the ranked chunk list, in order of first appearance.
C27_AllRankedDocsReturned ==
  lookup.returned \in {"source", "group"} => ReturnedDocIds = RankedDocIds

\* C27: whatever the order in which the store returns the fetched rows, the returned
\* documents are the first `limit` distinct document ids of the ranked chunk list in
\* order of first appearance, each once, up to the document at which the character
\* budget ended the response; all of them when the response is not truncated.
C27_RankingPreserved ==
  lookup.returned \in {"source", "group"} =>
    /\ Len(ReturnedDocIds) <= Len(RankedDocIds)
    /\ \A n \in DOMAIN ReturnedDocIds : ReturnedDocIds[n] = RankedDocIds[n]
    /\ ~lookup.response.truncated => ReturnedDocIds = RankedDocIds

\* two documents ranked 2 before 1; the store returned the rows as 1, 2; the response
\* lists them as 2, 1
C27_Witness ==
  /\ lookup.returned \in {"source", "group"}
  /\ lookup.chunkResults = <<2, 1>>
  /\ lookup.fetched = <<1, 2>>
  /\ ReturnedDocIds = <<2, 1>>
  /\ ~lookup.response.truncated

(***************************************************************************)
(* Properties of batched embedding (SpecEmbed).                            *)
(***************************************************************************)
\* C16: whatever the order in which the batches in flight complete, embedInBatches
\* returns one vector per text with position i holding the provider's vector for
\* texts[i]; never more than `concurrency` batches are in flight; an empty input returns
\* an empty list without a provider call.
C16_EmbedStreamOrdered ==
  /\ Cardinality(embed.inFlight) <= embed.concurrency
  /\ embed.pc = "returned" =>
       /\ Len(embed.results) = Len(embed.texts)
       /\ \A n \in DOMAIN embed.texts : embed.results[n] = ProviderVector(embed.texts[n])
       /\ embed.texts = <<>> => embed.providerCalls = 0

\* four single-text batches, two at a time; in both groups the later batch completed first
C16_Witness ==
  /\ embed.pc = "returned"
  /\ embed.texts = <<"a", "b", "b", "a">>
  /\ embed.batchSize = 1
  /\ embed.concurrency = 2
  /\ embed.completed = <<1, 0, 3, 2>>

(***************************************************************************)
(* Properties of the llms.txt fetcher (SpecFetch).                         *)
(***************************************************************************)
\* the entries fetchDocs is to fetch
SelectedEntries ==
  SelectSeq(fetch.entries, LAMBDA e : fetch.includeOptional \/ ~e.isOptional)

\* the fetches made for an entry
AttemptsFor(e) == SelectSeq(fetch.attempts, LAMBDA a : a.title = e.title)

\* a fetch for the entry threw, or its URL and its one ".md" fallback (if it has one)
\* both answered non-2xx
EntryFailed(e) ==
  LET tries == AttemptsFor(e)
  IN  /\ tries # <<>>
      /\ \/ tries[Len(tries)].response = "throws"
         \/ /\ \A n \in DOMAIN tries : tries[n].response = "non2xx"
            /\ tries[1].url = e.url
            /\ \/ endsWith_md(e.url) /\ Len(tries) = 1
               \/ ~endsWith_md(e.url) /\ Len(tries) = 2 /\ tries[2].url = append_md(e.url)

\* C19: an entry whose fetch failed is left out and fetching goes on: the batch never
\* raises, and it returns exactly the selected entries that did not fail, in manifest
\* order.
C19_EntryFailureSkipped ==
  /\ fetch.pc # "raised"
  /\ fetch.pc = "returned" =>
       LET emitted == SelectSeq(SelectedEntries, LAMBDA e : ~EntryFailed(e))
       IN  /\ \A n \in DOMAIN SelectedEntries : AttemptsFor(SelectedEntries[n]) # <<>>
           /\ Len(fetch.documents) = Len(emitted)
           /\ \A n \in DOMAIN emitted :
                /\ fetch.documents[n].title = emitted[n].title
                /\ fetch.documents[n].url \in {emitted[n].url, append_md(emitted[n].url)}

\* of three selected entries the second failed on its URL and on the fallback; the first
\* and the third were returned, the third from its fallback
C19_Witness ==
  /\ fetch.pc = "returned"
  /\ Len(SelectedEntries) = 3
  /\ EntryFailed(SelectedEntries[2])
  /\ Len(AttemptsFor(SelectedEntries[2])) = 2
  /\ Len(fetch.documents) = 2
  /\ fetch.documents[1].title = SelectedEntries[1].title
  /\ fetch.documents[2].title = SelectedEntries[3].title
  /\ fetch.documents[2].url = append_md(SelectedEntries[3].url)

====
